---- MODULE Spec2Model ----
(***************************************************************************)
(* Rentverse security audit / detection pipeline.                          *)
(*                                                                         *)
(* State: the audit_logs and alerts tables, the users table, the wall      *)
(* clock, and the last HTTP exchange: the response sent, the console.error *)
(* lines the handler wrote and the Prisma calls it made.  One action per   *)
(* route handler; a handler runs to its response in one step.  Storage     *)
(* faults (a Prisma call that throws) are inputs of the step.  In the      *)
(* scenario of concurrent logins a /login handler is one step per await,   *)
(* and inflight holds the handlers that are suspended.                     *)
(***************************************************************************)
EXTENDS Integers, Sequences, FiniteSets, TLC

VARIABLES auditLogs, alerts, users, now, req, res, console, dbCalls, call,
          inflight

vars == <<auditLogs, alerts, users, now, req, res, console, dbCalls, call,
          inflight>>

-----------------------------------------------------------------------------
(* Bounds of the model *)

\* rows the audit_logs table may hold
MaxLogs == 6
\* audit rows that are not a LOGIN_FAILURE of the watched account and address
MaxNoise == 1
\* rows the alerts table may hold
MaxAlerts == 2
\* rows the alerts table may hold in the console scenario
MaxConsoleAlerts == 1
\* rows of the audit_logs tables the queries are run on
MaxQueryRows == 4

\* the /login requests that may be in progress at once, and the rows of the
\* table in the scenario of concurrent logins
MaxRequests == 2

MaxRaceLogs == 5

\* the longest text handed to csvEscape, the longest list of linked alerts
MaxLen == 3

MaxLinked == 4

\* the rows of the table in the scenario of accounts and addresses
MaxScopeLogs == 5

-----------------------------------------------------------------------------
(* Values *)

\* SQL NULL / JS null for text columns
NULL == "NULL"
\* a null row id (ids of rows are their positions, 1, 2, ...)
NoId == 0
\* a null timestamp (resolvedAt)
NoTime == -1

AuditEventType ==
    {"LOGIN_SUCCESS", "LOGIN_FAILURE", "LOGOUT", "PASSWORD_CHANGE",
     "MFA_CHALLENGE", "MFA_SUCCESS", "MFA_FAILURE"}

AlertType ==
    {"BRUTE_FORCE", "NEW_DEVICE", "IMPOSSIBLE_TRAVEL", "MULTI_ACCOUNT_FAILURE",
     "SUSPICIOUS_MFA", "OTHER"}

AlertSeverity == {"LOW", "MEDIUM", "HIGH"}

AlertStatus == {"OPEN", "ACKNOWLEDGED", "RESOLVED"}

\* accounts of the users table
UserIds == {"u1", "u2", "adm"}
\* e-mail addresses a login may name: one per account, and one of no account
Emails == UserIds \cup {"nobody"}
\* source addresses
IPs == {"ip1", "ip2"}

\* the users table: u1 a plain account, u2 with MFA enabled, adm the
\* administrator; of the columns of the OAuth providers, googleId
InitUsers ==
    [u \in UserIds |->
        [id |-> u,
         role |-> IF u = "adm" THEN "ADMIN" ELSE "USER",
         isActive |-> TRUE,
         mfaEnabled |-> (u = "u2"),
         mfaSecret |-> IF u = "u2" THEN "s0" ELSE NULL,
         googleId |-> NULL]]

\* the Prisma calls a handler makes, each of which may throw
Faults == {"user.findUnique", "auditLog.create", "auditLog.create#2",
           "auditLog.count", "alert.create"}

TenMinutesMs == 10 * 60 * 1000

NoRes == [op |-> "none", status |-> 0, message |-> "", data |-> <<>>]

\* the request of the last exchange: route, caller, the id and the word it named
NoReq == [op |-> "none", caller |-> NULL, id |-> NoId, arg |-> ""]

\* the last call of a function of the pages and routes that touches no table:
\* its name, its argument and the value it returned
NoCall == [fn |-> "none", arg |-> <<>>, ret |-> <<>>]

\* the /login requests in progress: for each, the await it is suspended at,
\* the row it wrote, the count it read, and what it logged and called so far
Slots == 1..MaxRequests

Idle ==
    [pc |-> "idle", userId |-> NULL, ip |-> NULL, log |-> NoId,
     counted |-> FALSE, failureCount |-> 0, console |-> {}, calls |-> {}]

NoInflight == [r \in Slots |-> Idle]

-----------------------------------------------------------------------------
(* The store *)

\* prisma.auditLog.create: appends a row, or throws
AuditLogCreate(logs, data, t, fault) ==
    IF fault \/ data.eventType \notin AuditEventType
    THEN [ok |-> FALSE, logs |-> logs, id |-> NoId]
    ELSE [ok |-> TRUE,
          logs |-> Append(logs, [id |-> Len(logs) + 1,
                                 userId |-> data.userId,
                                 eventType |-> data.eventType,
                                 ipAddress |-> data.ipAddress,
                                 createdAt |-> t]),
          id |-> Len(logs) + 1]

\* prisma.alert.create: appends a row with the columns' defaults, or throws
AlertCreate(als, data, t, fault) ==
    IF fault \/ data.type \notin AlertType
    THEN [ok |-> FALSE, alerts |-> als, id |-> NoId]
    ELSE [ok |-> TRUE,
          alerts |-> Append(als, [id |-> Len(als) + 1,
                                  userId |-> data.userId,
                                  auditLogId |-> data.auditLogId,
                                  type |-> data.type,
                                  severity |-> data.severity,
                                  description |-> data.description,
                                  status |-> "OPEN",
                                  createdAt |-> t,
                                  resolvedAt |-> NoTime]),
          id |-> Len(als) + 1]

-----------------------------------------------------------------------------
(* securityMonitoring service *)

\* logAuditEvent without its try/catch: a failed write throws
logAuditEventThrowing(logs, userId, eventType, ip, t, fault) ==
    LET w == AuditLogCreate(logs, [userId |-> userId, eventType |-> eventType,
                                   ipAddress |-> ip], t, fault)
    IN  [logs |-> w.logs,
         log |-> w.id,
         threw |-> ~w.ok,
         console |-> {},
         calls |-> {"auditLog.create"}]

\* logAuditEvent: writes one row; a failure is logged and swallowed
logAuditEvent(logs, userId, eventType, ip, t, fault) ==
    LET w == AuditLogCreate(logs, [userId |-> userId, eventType |-> eventType,
                                   ipAddress |-> ip], t, fault)
    IN  [logs |-> w.logs,
         log |-> w.id,
         threw |-> FALSE,
         console |-> IF w.ok THEN {} ELSE {"Failed to write AuditLog"},
         calls |-> {"auditLog.create"}]

\* createAlert: writes one alert; a failure is logged and swallowed
createAlert(als, userId, auditLogId, type, severity, description, t, fault) ==
    LET w == AlertCreate(als, [userId |-> userId, auditLogId |-> auditLogId,
                               type |-> type, severity |-> severity,
                               description |-> description], t, fault)
    IN  [alerts |-> w.alerts,
         alert |-> w.id,
         threw |-> FALSE,
         console |-> IF w.ok THEN {} ELSE {"Failed to create Alert"},
         calls |-> {"alert.create"}]

\* the where clause without the scope by address
BruteForceWhereAnyIp(row, userId, ip, t) ==
    /\ row.eventType = "LOGIN_FAILURE"
    /\ row.createdAt >= t - TenMinutesMs
    /\ (userId # NULL => row.userId = userId)

\* the where clause with gt in place of gte
BruteForceWhereAfter(row, userId, ip, t) ==
    /\ row.eventType = "LOGIN_FAILURE"
    /\ row.createdAt > t - TenMinutesMs
    /\ (userId # NULL => row.userId = userId)
    /\ (ip # NULL => row.ipAddress = ip)

\* the where clause of the brute-force count
BruteForceWhere(row, userId, ip, t) ==
    /\ row.eventType = "LOGIN_FAILURE"
    /\ row.createdAt >= t - TenMinutesMs
    /\ (userId # NULL => row.userId = userId)
    /\ (ip # NULL => row.ipAddress = ip)

\* the count on the rows that were there before the last write
BruteForceCountStale(logs, userId, ip, t) ==
    Cardinality({i \in 1..(Len(logs) - 1) : BruteForceWhere(logs[i], userId, ip, t)})

\* prisma.auditLog.count({ where })
BruteForceCount(logs, userId, ip, t) ==
    Cardinality({i \in 1..Len(logs) : BruteForceWhere(logs[i], userId, ip, t)})

BruteForceThreshold == 5

\* the id the detection rule stores as the alert's auditLogId
DetectionAuditLogId(latestLog) ==
    IF latestLog # NoId THEN latestLog ELSE NoId

\* the alert of the brute-force rule, and the rule's result
BruteForceAlert(c, failureCount) ==
    [alerts |-> c.alerts, alertCreated |-> TRUE, threw |-> c.threw,
     console |-> c.console, calls |-> {"auditLog.count"} \cup c.calls,
     failureCount |-> failureCount]

\* the threshold test with > in place of >=
BruteForceRuleStrict(failureCount, als, ip, userId, latestLog, t, faults) ==
    IF failureCount > BruteForceThreshold
    THEN BruteForceAlert(
             createAlert(als, userId, DetectionAuditLogId(latestLog),
                         "BRUTE_FORCE", "HIGH",
                         [text |-> "Detected failed login attempts",
                          count |-> failureCount,
                          target |-> (userId # NULL),
                          ip |-> ip],
                         t, "alert.create" \in faults),
             failureCount)
    ELSE [alerts |-> als, alertCreated |-> FALSE, threw |-> FALSE, console |-> {},
          calls |-> {"auditLog.count"}, failureCount |-> failureCount]

\* the rule's threshold test on the count
BruteForceRule(failureCount, als, ip, userId, latestLog, t, faults) ==
    IF failureCount >= BruteForceThreshold
    THEN BruteForceAlert(
             createAlert(als, userId, DetectionAuditLogId(latestLog),
                         "BRUTE_FORCE", "HIGH",
                         [text |-> "Detected failed login attempts",
                          count |-> failureCount,
                          target |-> (userId # NULL),
                          ip |-> ip],
                         t, "alert.create" \in faults),
             failureCount)
    ELSE [alerts |-> als, alertCreated |-> FALSE, threw |-> FALSE, console |-> {},
          calls |-> {"auditLog.count"}, failureCount |-> failureCount]

\* runLoginDetectionRules that raises no alert while a BRUTE_FORCE alert of the
\* account is open
runLoginDetectionRulesOnce(logs, als, ip, userId, eventType, latestLog, t, faults) ==
    IF eventType # "LOGIN_FAILURE"
       \/ \E i \in 1..Len(als) :
              /\ als[i].type = "BRUTE_FORCE"
              /\ als[i].userId = userId
              /\ als[i].status = "OPEN"
    THEN [alerts |-> als, alertCreated |-> FALSE, threw |-> FALSE, console |-> {},
          calls |-> {}, failureCount |-> NULL]
    ELSE BruteForceRule(BruteForceCount(logs, userId, ip, t), als, ip, userId,
                        latestLog, t, faults)

\* runLoginDetectionRules({ req, user, eventType, latestLog })
runLoginDetectionRules(logs, als, ip, userId, eventType, latestLog, t, faults) ==
    IF eventType # "LOGIN_FAILURE"
    THEN [alerts |-> als, alertCreated |-> FALSE, threw |-> FALSE, console |-> {},
          calls |-> {}, failureCount |-> NULL]
    ELSE IF "auditLog.count" \in faults
    THEN [alerts |-> als, alertCreated |-> FALSE, threw |-> FALSE,
          console |-> {"Error running brute-force detection"},
          calls |-> {"auditLog.count"}, failureCount |-> NULL]
    ELSE BruteForceRule(BruteForceCount(logs, userId, ip, t), als, ip, userId,
                        latestLog, t, faults)

-----------------------------------------------------------------------------
(* POST /api/auth/login *)

\* prisma.user.findUnique({ where: { email } }): the account's id, or NULL
FindUserByEmail(email) ==
    IF email \in DOMAIN users THEN email ELSE NULL

\* what the handler answers once the account lookup is done: from the
\* credentials alone
LoginResponse(user, passwordOk) ==
    IF user = NULL \/ ~users[user].isActive \/ ~passwordOk
    THEN [op |-> "POST /login", status |-> 401, message |-> "Invalid credentials", data |-> <<>>]
    ELSE IF users[user].mfaEnabled /\ users[user].mfaSecret # NULL
    THEN [op |-> "POST /login", status |-> 200, message |-> "MFA required",
          data |-> <<[token |-> "mfa_login", userId |-> user]>>]
    ELSE [op |-> "POST /login", status |-> 200, message |-> "Login successful",
          data |-> <<[token |-> "session", userId |-> user]>>]

LoginError ==
    [op |-> "POST /login", status |-> 500, message |-> "Internal server error",
     data |-> <<>>]

\* the response, once the audit writes (w1, w2) and the detection (d) are
\* done; failureCount and alertCreated are what the detection computed
LoginRespond(w1, w2, d, user, passwordOk) ==
    [logs |-> w2.logs,
     alerts |-> d.alerts,
     console |-> w1.console \cup w2.console \cup d.console
                 \cup (IF w1.threw \/ w2.threw \/ d.threw
                       THEN {"Login error"} ELSE {}),
     res |-> IF w1.threw \/ w2.threw \/ d.threw THEN LoginError
             ELSE LoginResponse(user, passwordOk),
     calls |-> {"user.findUnique"} \cup w1.calls \cup w2.calls \cup d.calls,
     failureCount |-> d.failureCount,
     alertCreated |-> d.alertCreated]

\* the detection hook; the call passes { req, user, eventType }, so that
\* latestLog is undefined
LoginDetect(w1, w2, user, eventType, passwordOk, ip, faults) ==
    LoginRespond(w1, w2,
                 IF w1.threw \/ w2.threw
                 THEN [alerts |-> alerts, alertCreated |-> FALSE, threw |-> FALSE,
                       console |-> {}, calls |-> {}, failureCount |-> NULL]
                 ELSE runLoginDetectionRules(w2.logs, alerts, ip, user, eventType,
                                             NoId, now, faults),
                 user, passwordOk)

\* the MFA_CHALLENGE row, written when the account has MFA enabled
LoginChallenge(w1, user, eventType, mfa, passwordOk, ip, faults) ==
    LoginDetect(w1,
                IF mfa /\ ~w1.threw
                THEN logAuditEvent(w1.logs, user, "MFA_CHALLENGE", ip, now,
                                   "auditLog.create#2" \in faults)
                ELSE [logs |-> w1.logs, log |-> NoId, threw |-> FALSE,
                      console |-> {}, calls |-> {}],
                user, eventType, passwordOk, ip, faults)

\* the handler's steps after the account lookup: the audit writes, the
\* detection rules, the response
LoginRun(email, passwordOk, ip, faults) ==
    LET user == FindUserByEmail(email)
        failed == user = NULL \/ ~users[user].isActive \/ ~passwordOk
        mfa == ~failed /\ users[user].mfaEnabled /\ users[user].mfaSecret # NULL
        eventType == IF failed THEN "LOGIN_FAILURE" ELSE "LOGIN_SUCCESS"
    IN  LoginChallenge(logAuditEvent(auditLogs, user, eventType, ip, now,
                                     "auditLog.create" \in faults),
                       user, eventType, mfa, passwordOk, ip, faults)

\* the route handler: validation, the account lookup, then LoginRun; a throw
\* anywhere lands in the handler's catch
LoginHandler(email, valid, passwordOk, ip, faults) ==
    IF ~valid
    THEN [logs |-> auditLogs, alerts |-> alerts, console |-> {},
          res |-> [op |-> "POST /login", status |-> 400,
                   message |-> "Validation failed", data |-> <<>>],
          calls |-> {}]
    ELSE IF "user.findUnique" \in faults
    THEN [logs |-> auditLogs, alerts |-> alerts, console |-> {"Login error"},
          res |-> LoginError, calls |-> {"user.findUnique"}]
    ELSE LoginRun(email, passwordOk, ip, faults)

\* a handler's run becomes the next state
Serve(request, run) ==
    /\ req' = request
    /\ auditLogs' = run.logs
    /\ alerts' = run.alerts
    /\ console' = run.console
    /\ res' = run.res
    /\ dbCalls' = run.calls
    /\ UNCHANGED <<users, now, call, inflight>>

Login(email, valid, passwordOk, ip, faults) ==
    \E run \in {LoginHandler(email, valid, passwordOk, ip, faults)} :
        Serve([op |-> "POST /login", caller |-> email, id |-> NoId, arg |-> ip],
              run)

-----------------------------------------------------------------------------
(* POST /api/auth/login with wrong credentials, await by await: the account
   lookup, the LOGIN_FAILURE row, the count of the detection rule, the alert,
   the response.  Other handlers run between the awaits. *)

\* a count that leaves out the request's own row
CountFailuresOfOthers(slot, fault) ==
    IF fault
    THEN [slot EXCEPT !.pc = "send",
                      !.console = @ \cup {"Error running brute-force detection"},
                      !.calls = @ \cup {"auditLog.count"}]
    ELSE LET failureCount ==
                 Cardinality({i \in 1..Len(auditLogs) :
                                 /\ i # slot.log
                                 /\ BruteForceWhere(auditLogs[i], slot.userId,
                                                    slot.ip, now)})
         IN  [slot EXCEPT !.pc = IF failureCount >= BruteForceThreshold
                                 THEN "alert" ELSE "send",
                          !.counted = TRUE,
                          !.failureCount = failureCount,
                          !.calls = @ \cup {"auditLog.count"}]

\* a count that leaves out the rows written after the request's own
CountFailuresSnapshot(slot, fault) ==
    IF fault
    THEN [slot EXCEPT !.pc = "send",
                      !.console = @ \cup {"Error running brute-force detection"},
                      !.calls = @ \cup {"auditLog.count"}]
    ELSE LET failureCount ==
                 Cardinality({i \in 1..slot.log :
                                 BruteForceWhere(auditLogs[i], slot.userId,
                                                 slot.ip, now)})
         IN  [slot EXCEPT !.pc = IF failureCount >= BruteForceThreshold
                                 THEN "alert" ELSE "send",
                          !.counted = TRUE,
                          !.failureCount = failureCount,
                          !.calls = @ \cup {"auditLog.count"}]

\* await prisma.auditLog.count({ where }) and the threshold test: the request
\* goes on to createAlert, or returns to the handler; a throw is caught
CountFailures(slot, fault) ==
    IF fault
    THEN [slot EXCEPT !.pc = "send",
                      !.console = @ \cup {"Error running brute-force detection"},
                      !.calls = @ \cup {"auditLog.count"}]
    ELSE LET failureCount == BruteForceCount(auditLogs, slot.userId, slot.ip, now)
         IN  [slot EXCEPT !.pc = IF failureCount >= BruteForceThreshold
                                 THEN "alert" ELSE "send",
                          !.counted = TRUE,
                          !.failureCount = failureCount,
                          !.calls = @ \cup {"auditLog.count"}]

\* the request arrives and awaits prisma.user.findUnique
InflightArrive(r, email, ip) ==
    /\ inflight[r].pc = "idle"
    /\ inflight' = [inflight EXCEPT ![r] =
                        [Idle EXCEPT !.pc = "audit",
                                     !.userId = FindUserByEmail(email),
                                     !.ip = ip,
                                     !.calls = {"user.findUnique"}]]
    /\ UNCHANGED <<auditLogs, alerts, users, now, req, res, console, dbCalls, call>>

\* await logAuditEvent({ req, userId, eventType: 'LOGIN_FAILURE' })
InflightAudit(r) ==
    /\ inflight[r].pc = "audit"
    /\ \E w \in {logAuditEvent(auditLogs, inflight[r].userId, "LOGIN_FAILURE",
                                inflight[r].ip, now, FALSE)} :
           /\ auditLogs' = w.logs
           /\ inflight' = [inflight EXCEPT ![r].pc = "count",
                                           ![r].log = w.log,
                                           ![r].calls = @ \cup w.calls]
    /\ UNCHANGED <<alerts, users, now, req, res, console, dbCalls, call>>

\* runLoginDetectionRules up to its count
InflightCount(r, fault) ==
    /\ inflight[r].pc = "count"
    /\ inflight' = [inflight EXCEPT ![r] = CountFailures(inflight[r], fault)]
    /\ UNCHANGED <<auditLogs, alerts, users, now, req, res, console, dbCalls, call>>

\* await createAlert({ ... }) with the count read before
InflightAlert(r) ==
    /\ inflight[r].pc = "alert"
    /\ \E d \in {BruteForceRule(inflight[r].failureCount, alerts, inflight[r].ip,
                                 inflight[r].userId, NoId, now, {})} :
           /\ alerts' = d.alerts
           /\ inflight' = [inflight EXCEPT ![r].pc = "send",
                                           ![r].console = @ \cup d.console,
                                           ![r].calls = @ \cup {"alert.create"}]
    /\ UNCHANGED <<auditLogs, users, now, req, res, console, dbCalls, call>>

\* res.status(401).json(...)
InflightSend(r) ==
    /\ inflight[r].pc = "send"
    /\ req' = [op |-> "POST /login", caller |-> inflight[r].userId, id |-> NoId,
               arg |-> inflight[r].ip]
    /\ res' = LoginResponse(inflight[r].userId, FALSE)
    /\ console' = inflight[r].console
    /\ dbCalls' = inflight[r].calls
    /\ inflight' = [inflight EXCEPT ![r].pc = "done"]
    /\ UNCHANGED <<auditLogs, alerts, users, now, call>>

-----------------------------------------------------------------------------
(* /api/security: the admin guard and the alert lifecycle *)

\* req.user as the auth middleware leaves it: the account's id, or NULL
Callers == UserIds

\* requireAdmin with the role test left out
requireAdminAuthenticated(caller) ==
    caller # NULL

\* requireAdmin: next() is called only for a req.user whose role is ADMIN
requireAdmin(caller) ==
    caller # NULL /\ users[caller].role = "ADMIN"

AdminRequired(op) ==
    [op |-> op, status |-> 403, message |-> "Admin access required", data |-> <<>>]

\* the handlers' catch: console.error and a 500
InternalError(op) ==
    [op |-> op, status |-> 500, message |-> "Internal server error", data |-> <<>>]

\* a handler that left the store alone
Answer(response, logged, calls) ==
    [logs |-> auditLogs, alerts |-> alerts, console |-> logged, res |-> response,
     calls |-> calls]

\* the status values a PATCH body may carry: absent, empty, a wrong word, a
\* lower-case spelling, and the enum's values
BodyStatuses == {NULL, "", "DONE", "open"} \cup AlertStatus

\* JS falsiness of a body or query string
Falsy(v) == v \in {NULL, ""}

\* allowedStatuses with one more word
AllowedStatusesLax == AlertStatus \cup {"DONE"}

AllowedStatuses == {"OPEN", "ACKNOWLEDGED", "RESOLVED"}

\* resolvedAt stamped on every update
ResolvedAtAlways(status, t) == t

\* resolvedAt: status === 'RESOLVED' ? new Date() : null
ResolvedAtFor(status, t) ==
    IF status = "RESOLVED" THEN t ELSE NoTime

\* the status changes of the documented lifecycle
LifecycleSteps ==
    {<<"OPEN", "ACKNOWLEDGED">>, <<"ACKNOWLEDGED", "RESOLVED">>,
     <<"OPEN", "RESOLVED">>, <<"RESOLVED", "OPEN">>}

\* an update that refuses the changes outside LifecycleSteps
AlertUpdateLifecycle(als, id, data, fault) ==
    IF fault \/ id \notin 1..Len(als) \/ data.status \notin AlertStatus
       \/ <<als[id].status, data.status>> \notin LifecycleSteps
    THEN [ok |-> FALSE, alerts |-> als]
    ELSE [ok |-> TRUE,
          alerts |-> [als EXCEPT ![id].status = data.status,
                                 ![id].resolvedAt = data.resolvedAt]]

\* prisma.alert.update({ where: { id }, data }): throws when no row has the id
AlertUpdate(als, id, data, fault) ==
    IF fault \/ id \notin 1..Len(als) \/ data.status \notin AlertStatus
    THEN [ok |-> FALSE, alerts |-> als]
    ELSE [ok |-> TRUE,
          alerts |-> [als EXCEPT ![id].status = data.status,
                                 ![id].resolvedAt = data.resolvedAt]]

\* the update and what the handler answers
PatchAlertUpdate(id, w) ==
    IF w.ok
    THEN [logs |-> auditLogs, alerts |-> w.alerts, console |-> {},
          res |-> [op |-> "PATCH /alerts/:id", status |-> 200, message |-> "",
                   data |-> <<w.alerts[id]>>],
          calls |-> {"alert.update"}]
    ELSE Answer(InternalError("PATCH /alerts/:id"), {"Error updating alert status"},
                {"alert.update"})

\* PATCH /alerts/:id
PatchAlertHandler(caller, id, status, faults) ==
    IF ~requireAdmin(caller)
    THEN Answer(AdminRequired("PATCH /alerts/:id"), {}, {})
    ELSE IF Falsy(status)
    THEN Answer([op |-> "PATCH /alerts/:id", status |-> 400,
                 message |-> "Status is required", data |-> <<>>], {}, {})
    ELSE IF status \notin AllowedStatuses
    THEN Answer([op |-> "PATCH /alerts/:id", status |-> 400,
                 message |-> "Invalid status value", data |-> <<>>], {}, {})
    ELSE PatchAlertUpdate(id,
             AlertUpdate(alerts, id,
                         [status |-> status, resolvedAt |-> ResolvedAtFor(status, now)],
                         "alert.update" \in faults))

PatchAlert(caller, id, status, faults) ==
    \E run \in {PatchAlertHandler(caller, id, status, faults)} :
        Serve([op |-> "PATCH /alerts/:id", caller |-> caller, id |-> id,
               arg |-> status], run)

-----------------------------------------------------------------------------
(* POST /api/security/me/report-incident *)

\* findFirst({ where: { id } }): the lookup without the owner
FindActivityById(logs, activityId, userId) ==
    IF activityId \in 1..Len(logs) THEN activityId ELSE NoId

\* prisma.auditLog.findFirst({ where: { id: activityId, userId } })
FindActivity(logs, activityId, userId) ==
    IF activityId \in 1..Len(logs) /\ logs[activityId].userId = userId
    THEN activityId ELSE NoId

ActivityNotFound ==
    [op |-> "POST /me/report-incident", status |-> 404,
     message |-> "Activity not found or does not belong to this user",
     data |-> <<>>]

\* String.prototype.trim on the notes of the model
Trim(s) ==
    CASE s = "  " -> ""
      [] s = " note " -> "note"
      [] OTHER -> s

DefaultDescription ==
    "User reported suspicious activity from account security page."

\* (note && note.trim()) || the default text
ReportDescription(note) ==
    IF Falsy(note) \/ Falsy(Trim(note)) THEN DefaultDescription ELSE Trim(note)

\* the notes a report may carry: absent, empty, blank, padded, plain
Notes == {NULL, "", "  ", " note ", "note"}

\* the alert write of a report and the answer
ReportCreate(userId, auditLog, note, lookup, faults) ==
    LET w == AlertCreate(alerts,
                         [userId |-> userId, auditLogId |-> auditLog,
                          type |-> "SUSPICIOUS_ACTIVITY", severity |-> "HIGH",
                          description |-> [text |-> ReportDescription(note),
                                           count |-> 0, target |-> TRUE, ip |-> NULL]],
                         now, "alert.create" \in faults)
    IN  IF w.ok
        THEN [logs |-> auditLogs, alerts |-> w.alerts, console |-> {},
              res |-> [op |-> "POST /me/report-incident", status |-> 200,
                       message |-> "", data |-> <<w.alerts[w.id]>>],
              calls |-> lookup \cup {"alert.create"}]
        ELSE Answer([op |-> "POST /me/report-incident", status |-> 500,
                     message |-> "alert.create failed", data |-> <<>>],
                    {"report-incident error"}, lookup \cup {"alert.create"})

\* the ownership lookup of a report that names an activity
ReportLookup(userId, activityId, note, auditLog, faults) ==
    IF "auditLog.findFirst" \in faults
    THEN Answer([op |-> "POST /me/report-incident", status |-> 500,
                 message |-> "auditLog.findFirst failed", data |-> <<>>],
                {"report-incident error"}, {"auditLog.findFirst"})
    ELSE IF auditLog = NoId
    THEN Answer(ActivityNotFound, {}, {"auditLog.findFirst"})
    ELSE ReportCreate(userId, auditLog, note, {"auditLog.findFirst"}, faults)

\* POST /me/report-incident
ReportIncidentHandler(caller, activityId, note, faults) ==
    IF caller = NULL
    THEN Answer([op |-> "POST /me/report-incident", status |-> 401,
                 message |-> "Unauthorized", data |-> <<>>], {}, {})
    ELSE IF activityId # NoId
    THEN ReportLookup(caller, activityId, note,
                      FindActivity(auditLogs, activityId, caller), faults)
    ELSE ReportCreate(caller, NoId, note, {}, faults)

ReportIncident(caller, activityId, note, faults) ==
    \E run \in {ReportIncidentHandler(caller, activityId, note, faults)} :
        Serve([op |-> "POST /me/report-incident", caller |-> caller,
               id |-> activityId, arg |-> note], run)

-----------------------------------------------------------------------------
(* /api/security: the admin listings *)

RECURSIVE Perms(_)
\* the orders a set of row ids can come back in
Perms(S) ==
    IF S = {} THEN {<<>>}
    ELSE UNION {{<<x>> \o p : p \in Perms(S \ {x})} : x \in S}

RECURSIVE OrderByCreatedAtDesc(_, _)
\* orderBy: { createdAt: 'desc' }: any order of the matching rows that is
\* newest first; rows of one instant come in the order the database picks
OrderByCreatedAtDesc(rows, ids) ==
    IF ids = {} THEN {<<>>}
    ELSE UNION {{<<x>> \o p : p \in OrderByCreatedAtDesc(rows, ids \ {x})} :
                   x \in {y \in ids :
                              \A z \in ids : rows[y].createdAt >= rows[z].createdAt}}

\* String.prototype.toUpperCase on the query words of the model
ToUpperCase(s) ==
    CASE s = "open" -> "OPEN"
      [] s = "resolved" -> "RESOLVED"
      [] s = "high" -> "HIGH"
      [] s = "brute_force" -> "BRUTE_FORCE"
      [] s = "suspicious_activity" -> "SUSPICIOUS_ACTIVITY"
      [] s = "done" -> "DONE"
      [] OTHER -> s

\* allowedTypes of GET /alerts
AllowedTypes ==
    {"BRUTE_FORCE", "SUSPICIOUS_ACTIVITY", "NEW_DEVICE", "IMPOSSIBLE_TRAVEL",
     "MULTI_ACCOUNT_FAILURE", "SUSPICIOUS_MFA", "OTHER"}

\* the where clause of GET /alerts
AlertsWhere(row, status, severity, type) ==
    /\ (~Falsy(status) => row.status = status)
    /\ (~Falsy(severity) => row.severity = severity)
    /\ (~Falsy(type) => row.type = type)

AlertsMatching(als, status, severity, type) ==
    {i \in 1..Len(als) : AlertsWhere(als[i], status, severity, type)}

\* prisma.alert.findMany and the answer; a type the column's enum lacks is
\* refused by the client
GetAlertsFind(status, severity, type, order, faults) ==
    IF "alert.findMany" \in faults \/ (~Falsy(type) /\ type \notin AlertType)
    THEN Answer(InternalError("GET /alerts"), {"Error fetching alerts"},
                {"alert.findMany"})
    ELSE Answer([op |-> "GET /alerts", status |-> 200, message |-> "",
                 data |-> [k \in 1..Len(order) |-> alerts[order[k]]]],
                {}, {"alert.findMany"})

\* GET /alerts
GetAlertsHandler(caller, q, order, faults) ==
    LET status == IF q.status = NULL THEN NULL ELSE ToUpperCase(q.status)
        severity == IF q.severity = NULL THEN NULL ELSE ToUpperCase(q.severity)
        type == IF q.type = NULL THEN NULL ELSE ToUpperCase(q.type)
    IN  IF ~requireAdmin(caller)
        THEN Answer(AdminRequired("GET /alerts"), {}, {})
        ELSE IF \/ (~Falsy(status) /\ status \notin AllowedStatuses)
                \/ (~Falsy(severity) /\ severity \notin {"LOW", "MEDIUM", "HIGH"})
                \/ (~Falsy(type) /\ type \notin AllowedTypes)
        THEN Answer([op |-> "GET /alerts", status |-> 200, message |-> "",
                     data |-> <<>>], {}, {})
        ELSE GetAlertsFind(status, severity, type, order, faults)

\* the orders the database may return the matching alerts in
GetAlertsOrders(q) ==
    OrderByCreatedAtDesc(alerts,
        AlertsMatching(alerts,
                       IF q.status = NULL THEN NULL ELSE ToUpperCase(q.status),
                       IF q.severity = NULL THEN NULL ELSE ToUpperCase(q.severity),
                       IF q.type = NULL THEN NULL ELSE ToUpperCase(q.type)))

GetAlerts(caller, q, order, faults) ==
    \E run \in {GetAlertsHandler(caller, q, order, faults)} :
        Serve([op |-> "GET /alerts", caller |-> caller, id |-> NoId,
               arg |-> IF q.status = NULL THEN "" ELSE q.status], run)

\* a value the client refuses for an enum column of the alerts table
BadAlertEnum(q) ==
    \/ (~Falsy(q.status) /\ q.status \notin AlertStatus)
    \/ (~Falsy(q.severity) /\ q.severity \notin AlertSeverity)
    \/ (~Falsy(q.type) /\ q.type \notin AlertType)

\* GET /alerts of routes/security.js: the query values go into the where
\* clause as they are
BackendGetAlertsHandler(caller, q, order, faults) ==
    IF ~requireAdmin(caller)
    THEN Answer(AdminRequired("GET /alerts"), {}, {})
    ELSE IF "alert.findMany" \in faults \/ BadAlertEnum(q)
    THEN Answer(InternalError("GET /alerts"), {"Error fetching alerts"},
                {"alert.findMany"})
    ELSE Answer([op |-> "GET /alerts", status |-> 200, message |-> "",
                 data |-> [k \in 1..Len(order) |-> alerts[order[k]]]],
                {}, {"alert.findMany"})

BackendGetAlertsOrders(q) ==
    OrderByCreatedAtDesc(alerts,
        AlertsMatching(alerts, q.status, q.severity, q.type))

BackendGetAlerts(caller, q, order, faults) ==
    \E run \in {BackendGetAlertsHandler(caller, q, order, faults)} :
        Serve([op |-> "GET /alerts", caller |-> caller, id |-> NoId,
               arg |-> IF q.status = NULL THEN "" ELSE q.status], run)

\* parseInt(s, 10) on the page and limit words of the model; 0 stands for NaN
\* as well, both being falsy in  parseInt(...) || default
ParseInt(s) ==
    CASE s = "1" -> 1
      [] s = "2" -> 2
      [] s = "3" -> 3
      [] s = "500" -> 500
      [] s = "-1" -> -1
      [] \E n \in 4..30 : s = ToString(n) -> CHOOSE n \in 4..30 : s = ToString(n)
      [] OTHER -> 0

Max(a, b) == IF a >= b THEN a ELSE b

Min(a, b) == IF a <= b THEN a ELSE b

\* Math.ceil(a / b) for a >= 0, b > 0
CeilDiv(a, b) == (a + b - 1) \div b

DefaultLimit == 50

MaxLimit == 200

\* pageNum = Math.max(parseInt(page, 10) || 1, 1)
PageNum(page) ==
    Max(IF page = NULL \/ ParseInt(page) = 0 THEN 1 ELSE ParseInt(page), 1)

\* limitNum without the upper clamp
LimitNumUnclamped(limit) ==
    Max(IF limit = NULL \/ ParseInt(limit) = 0 THEN DefaultLimit
        ELSE ParseInt(limit), 1)

\* limitNum = Math.min(Math.max(parseInt(limit, 10) || 50, 1), 200)
LimitNum(limit) ==
    Min(Max(IF limit = NULL \/ ParseInt(limit) = 0 THEN DefaultLimit
            ELSE ParseInt(limit), 1), MaxLimit)

\* String.prototype.includes / Prisma contains on the words of the model,
\* compared without case
Contains(s, sub) ==
    \/ sub = ""
    \/ s = sub
    \/ (sub \in {"ip", "IP"} /\ s \in IPs)
    \/ (sub \in {"u", "U"} /\ s \in {"u1", "u2"})
    \/ (sub = "U1" /\ s = "u1")

RECURSIVE FilterBoolean(_)
\* list.filter(Boolean): the empty segments dropped
FilterBoolean(list) ==
    IF list = <<>> THEN <<>>
    ELSE IF Head(list) = "" THEN FilterBoolean(Tail(list))
    ELSE <<Head(list)>> \o FilterBoolean(Tail(list))

Range(s) == {s[i] : i \in 1..Len(s)}

\* the alerts of an audit row (the relation behind auditLogId)
AlertsOf(als, logId) ==
    {i \in 1..Len(als) : als[i].auditLogId = logId}

\* the where clause of the audit-log listing and of the export; types is the
\* eventType list after its parsing, severity is NULL in the export
AuditLogsWhere(row, als, types, q, severity) ==
    /\ (types # <<>> => row.eventType \in Range(types))
    /\ (~Falsy(q.userId) => row.userId = q.userId)
    /\ (~Falsy(q.ipAddress) =>
            row.ipAddress # NULL /\ Contains(row.ipAddress, q.ipAddress))
    /\ (q.from # NoTime => row.createdAt >= q.from)
    /\ (q.to # NoTime => row.createdAt <= q.to)
    /\ (~Falsy(q.q) => row.userId # NULL /\ Contains(row.userId, q.q))
    /\ (~Falsy(severity) =>
            \E i \in AlertsOf(als, row.id) : als[i].severity = severity)

AuditLogsMatching(logs, als, types, q, severity) ==
    {i \in 1..Len(logs) : AuditLogsWhere(logs[i], als, types, q, severity)}

\* a value the client refuses for an enum column
BadEnum(types, severity) ==
    \/ \E i \in 1..Len(types) : types[i] \notin AuditEventType
    \/ (~Falsy(severity) /\ severity \notin AlertSeverity)

\* rows skip+1 .. skip+take of an ordered result
SkipTake(order, skip, take) ==
    SubSeq(order, skip + 1, Min(Len(order), skip + take))

\* a row of the listing, with its alerts included
ListedRow(row, als) ==
    [id |-> row.id, userId |-> row.userId, eventType |-> row.eventType,
     ipAddress |-> row.ipAddress, createdAt |-> row.createdAt,
     alerts |-> AlertsOf(als, row.id)]

\* the count, the findMany and the answer of GET /audit-logs
GetAuditLogsFind(q, types, order, faults) ==
    IF "auditLog.findMany" \in faults \/ BadEnum(types, q.severity)
    THEN Answer(InternalError("GET /audit-logs"), {"Error fetching audit logs"},
                {"auditLog.count", "auditLog.findMany"})
    ELSE LET pageNum == PageNum(q.page)
             limitNum == LimitNum(q.limit)
             page == SkipTake(order, (pageNum - 1) * limitNum, limitNum)
         IN  Answer([op |-> "GET /audit-logs", status |-> 200, message |-> "",
                     data |-> <<[rows |-> [k \in 1..Len(page) |->
                                              ListedRow(auditLogs[page[k]], alerts)],
                                 page |-> pageNum,
                                 limit |-> limitNum,
                                 total |-> Len(order),
                                 totalPages |-> CeilDiv(Len(order), limitNum)]>>],
                    {}, {"auditLog.count", "auditLog.findMany"})

\* the eventType list of GET /audit-logs: split, trimmed, empty segments dropped
ListingTypes(q) ==
    IF q.eventType \in {<<>>, <<"">>} THEN <<>> ELSE FilterBoolean(q.eventType)

\* GET /audit-logs
GetAuditLogsHandler(caller, q, order, faults) ==
    IF ~requireAdmin(caller)
    THEN Answer(AdminRequired("GET /audit-logs"), {}, {})
    ELSE GetAuditLogsFind(q, ListingTypes(q), order, faults)

GetAuditLogsOrders(q) ==
    OrderByCreatedAtDesc(auditLogs,
        AuditLogsMatching(auditLogs, alerts, ListingTypes(q), q, q.severity))

GetAuditLogs(caller, q, order, faults) ==
    \E run \in {GetAuditLogsHandler(caller, q, order, faults)} :
        Serve([op |-> "GET /audit-logs", caller |-> caller, id |-> NoId,
               arg |-> IF q.page = NULL THEN "" ELSE q.page], run)

-----------------------------------------------------------------------------
(* GET /audit-logs/export.csv *)

\* text is a sequence of tokens: the double quote, a separator, or a word
\* that holds neither
Quote == "\""

\* a null or undefined cell
NoText == <<NULL>>

\* the text of a word; the empty word is the empty text
Text(s) == IF s = "" THEN <<>> ELSE <<s>>

RECURSIVE DoubleQuotes(_)
\* str.replace(/"/g, '""')
DoubleQuotes(text) ==
    IF text = <<>> THEN <<>>
    ELSE (IF Head(text) = Quote THEN <<Quote, Quote>> ELSE <<Head(text)>>)
         \o DoubleQuotes(Tail(text))

\* csvEscape with the quotes left as they are
csvEscapeNoDoubling(value) ==
    IF value = NoText THEN <<>>
    ELSE <<Quote>> \o value \o <<Quote>>

\* csvEscape(value)
csvEscape(value) ==
    IF value = NoText THEN <<>>
    ELSE <<Quote>> \o DoubleQuotes(value) \o <<Quote>>

RECURSIVE Join(_, _)
\* Array.prototype.join(sep) of texts
Join(texts, sep) ==
    IF texts = <<>> THEN <<>>
    ELSE IF Len(texts) = 1 THEN texts[1]
    ELSE texts[1] \o <<sep>> \o Join(Tail(texts), sep)

\* Date.prototype.toISOString, as the text of the instant
ToISOString(t) == <<ToString(t)>>

\* the types of a row's alerts, in the order of the include
AlertTypesOf(als, logId) ==
    LET ids == AlertsOf(als, logId)
    IN  [k \in 1..Cardinality(ids) |->
            <<als[CHOOSE i \in ids :
                      Cardinality({j \in ids : j < i}) = k - 1].type>>]

ExportCap == 10000

\* the header line
ExportHeader ==
    Join(<<<<"createdAt">>, <<"eventType">>, <<"userEmail">>, <<"ipAddress">>,
           <<"userAgent">>, <<"geoLocation">>, <<"alertCount">>,
           <<"alertTypes">>, <<"metadata">>>>, ",")

\* JSON.stringify of a string
JsonString(s) == <<Quote, s, Quote>>

\* JSON.stringify of an object with string members
JsonObject(members) ==
    <<"{">> \o Join([k \in 1..Len(members) |->
                        JsonString(members[k][1]) \o <<":">> \o members[k][2]], ",")
           \o <<"}">>

\* JSON.stringify(r.metadata || {}) of a row /login wrote: the reason and the
\* e-mail of a failure, the e-mail and mfaRequired of a success, the e-mail of
\* a challenge; the e-mail of a known account is its id in the model
MetadataOf(row) ==
    LET email == IF row.userId = NULL THEN "nobody" ELSE row.userId
    IN  IF row.eventType = "LOGIN_FAILURE"
        THEN JsonObject(<<<<"reason", JsonString(IF row.userId = NULL
                                                 THEN "USER_NOT_FOUND"
                                                 ELSE "INVALID_PASSWORD")>>,
                          <<"email", JsonString(email)>>>>)
        ELSE IF row.eventType = "LOGIN_SUCCESS"
        THEN JsonObject(<<<<"email", JsonString(email)>>,
                          <<"mfaRequired",
                            <<IF row.userId \in DOMAIN users
                                 /\ users[row.userId].mfaEnabled
                              THEN "true" ELSE "false">>>>>>)
        ELSE JsonObject(<<<<"email", JsonString(email)>>>>)

\* the values of a row's cells, before csvEscape; the requests of the model
\* carry no User-Agent header, and no row has a geoLocation
ExportCells(row, als) ==
    <<ToISOString(row.createdAt),
      Text(row.eventType),
      IF row.userId = NULL THEN <<>> ELSE Text(row.userId),
      IF row.ipAddress = NULL THEN <<>> ELSE Text(row.ipAddress),
      <<>>,
      <<>>,
      <<ToString(Cardinality(AlertsOf(als, row.id)))>>,
      Join(AlertTypesOf(als, row.id), ";"),
      MetadataOf(row)>>

\* a line of the export: every cell through csvEscape, joined by commas
ExportLineOf(cells) ==
    Join([k \in 1..Len(cells) |-> csvEscape(cells[k])], ",")

\* one line of the export
ExportLine(row, als) == ExportLineOf(ExportCells(row, als))

\* the eventType list of the export: split and trimmed, nothing dropped
ExportTypes(q) ==
    IF q.eventType \in {<<>>, <<"">>} THEN <<>> ELSE q.eventType

\* the findMany and the file
ExportCsvFind(q, types, order, faults) ==
    IF "auditLog.findMany" \in faults \/ BadEnum(types, NULL)
    THEN Answer([op |-> "GET /audit-logs/export.csv", status |-> 500,
                 message |-> "Failed to export CSV", data |-> <<>>],
                {"CSV export error"}, {"auditLog.findMany"})
    ELSE LET rows == SkipTake(order, 0, ExportCap)
         IN  Answer([op |-> "GET /audit-logs/export.csv", status |-> 200,
                     message |-> "text/csv",
                     data |-> Join(<<ExportHeader>> \o
                                   [k \in 1..Len(rows) |->
                                       ExportLine(auditLogs[rows[k]], alerts)],
                                   "\n")],
                    {}, {"auditLog.findMany"})

\* GET /audit-logs/export.csv
ExportCsvHandler(caller, q, order, faults) ==
    IF ~requireAdmin(caller)
    THEN Answer(AdminRequired("GET /audit-logs/export.csv"), {}, {})
    ELSE ExportCsvFind(q, ExportTypes(q), order, faults)

ExportCsvOrders(q) ==
    OrderByCreatedAtDesc(auditLogs,
        AuditLogsMatching(auditLogs, alerts, ExportTypes(q), q, NULL))

ExportCsv(caller, q, order, faults) ==
    \E run \in {ExportCsvHandler(caller, q, order, faults)} :
        Serve([op |-> "GET /audit-logs/export.csv", caller |-> caller,
               id |-> NoId, arg |-> ""], run)

-----------------------------------------------------------------------------
(* GET /audit-logs/summary *)

HourMs == 60 * 60 * 1000

DayMs == 24 * HourMs

\* date_trunc('hour' | 'day', createdAt)
DateTrunc(unit, t) == t - (t % unit)

\* the start of the window: seven days back for "7d", a day back otherwise
SummaryStart(window, t) ==
    IF window = "7d" THEN t - 7 * DayMs ELSE t - DayMs

RECURSIVE SortAsc(_)
\* ORDER BY 1 ASC
SortAsc(S) ==
    IF S = {} THEN <<>>
    ELSE LET m == CHOOSE x \in S : \A y \in S : x <= y
         IN  <<m>> \o SortAsc(S \ {m})

\* the LOGIN_FAILURE rows, whenever they were written
FailedEver(logs, start) ==
    {i \in 1..Len(logs) : logs[i].eventType = "LOGIN_FAILURE"}

\* the LOGIN_FAILURE rows of the window
FailedSince(logs, start) ==
    {i \in 1..Len(logs) :
        logs[i].eventType = "LOGIN_FAILURE" /\ logs[i].createdAt >= start}

\* failed logins per bucket, oldest bucket first
FailedLoginsOverTime(logs, unit, start) ==
    LET rows == FailedSince(logs, start)
        buckets == SortAsc({DateTrunc(unit, logs[i].createdAt) : i \in rows})
    IN  [k \in 1..Len(buckets) |->
            [t |-> buckets[k],
             c |-> Cardinality({i \in rows :
                                   DateTrunc(unit, logs[i].createdAt) = buckets[k]})]]

\* failed logins per source address
IpCounts(logs, start) ==
    [ip \in {logs[i].ipAddress : i \in {j \in FailedSince(logs, start) :
                                            logs[j].ipAddress # NULL}} |->
        Cardinality({i \in FailedSince(logs, start) : logs[i].ipAddress = ip})]

\* rows per event type
TypeCounts(logs, start) ==
    [ty \in {logs[i].eventType : i \in {j \in 1..Len(logs) :
                                            logs[j].createdAt >= start}} |->
        Cardinality({i \in 1..Len(logs) :
                        logs[i].createdAt >= start /\ logs[i].eventType = ty})]

\* orderBy: { _count: 'desc' }: groups of one count come in the order the
\* database picks
OrderByCountDesc(counts) ==
    {p \in Perms(DOMAIN counts) :
        \A k \in 1..(Len(p) - 1) : counts[p[k]] >= counts[p[k + 1]]}

TopIps == 10

TopTypes == 20

\* GET /audit-logs/summary
SummaryHandler(caller, window, ipOrder, typeOrder, faults) ==
    LET w == IF Falsy(window) THEN "24h" ELSE window
        start == SummaryStart(w, now)
        ips == SkipTake(ipOrder, 0, TopIps)
        types == SkipTake(typeOrder, 0, TopTypes)
    IN  IF ~requireAdmin(caller)
        THEN Answer(AdminRequired("GET /audit-logs/summary"), {}, {})
        ELSE IF faults # {}
        THEN Answer(InternalError("GET /audit-logs/summary"),
                    {"Error building audit log summary"},
                    IF "$queryRaw" \in faults THEN {"$queryRaw"}
                    ELSE {"$queryRaw", "auditLog.groupBy"})
        ELSE Answer([op |-> "GET /audit-logs/summary", status |-> 200,
                     message |-> "",
                     data |-> <<[window |-> w, start |-> start, end |-> now,
                                 failedLoginsOverTime |->
                                     FailedLoginsOverTime(auditLogs,
                                         IF w = "7d" THEN DayMs ELSE HourMs, start),
                                 topSourceIps |->
                                     [k \in 1..Len(ips) |->
                                         [ipAddress |-> ips[k],
                                          count |-> IpCounts(auditLogs, start)[ips[k]]]],
                                 eventTypeBreakdown |->
                                     [k \in 1..Len(types) |->
                                         [eventType |-> types[k],
                                          count |-> TypeCounts(auditLogs, start)[types[k]]]]]>>],
                    {}, {"$queryRaw", "auditLog.groupBy"})

Summary(caller, window, ipOrder, typeOrder, faults) ==
    \E run \in {SummaryHandler(caller, window, ipOrder, typeOrder, faults)} :
        Serve([op |-> "GET /audit-logs/summary", caller |-> caller, id |-> NoId,
               arg |-> window], run)

-----------------------------------------------------------------------------
(* /api/security/me: the caller's own activities and summary *)

\* req.user as the handlers read it: the account's id under userId, or under
\* id (the field the MFA routes read)
ByUserId(u) == [userId |-> u, id |-> NULL]

ById(u) == [userId |-> NULL, id |-> u]

Identities == {ByUserId(u) : u \in UserIds} \cup {ById(u) : u \in UserIds}

\* req.user && (req.user.userId || req.user.id)
SelfUserId(user) ==
    IF ~Falsy(user.userId) THEN user.userId ELSE user.id

\* the event types of the activity page
LoginRelated ==
    {"LOGIN_SUCCESS", "LOGIN_FAILURE", "MFA_CHALLENGE", "MFA_SUCCESS", "MFA_FAILURE"}

ActivitiesCap == 20

\* the where clause of the activity page without the owner
ActivitiesWhereAnyUser(row, userId) ==
    row.eventType \in LoginRelated

\* where: { userId, eventType: { in: [...] } }
ActivitiesWhere(row, userId) ==
    row.userId = userId /\ row.eventType \in LoginRelated

ActivitiesMatching(logs, userId) ==
    {i \in 1..Len(logs) : ActivitiesWhere(logs[i], userId)}

\* the rows of the answer: the first 20 of the order, with their alerts
MeActivitiesData(logs, als, order) ==
    LET page == SkipTake(order, 0, ActivitiesCap)
    IN  [k \in 1..Len(page) |-> ListedRow(logs[page[k]], als)]

\* the answers the tables allow for a caller, one per order of the database
ActivitiesResults(logs, als, userId) ==
    {MeActivitiesData(logs, als, order) :
        order \in OrderByCreatedAtDesc(logs, ActivitiesMatching(logs, userId))}

\* GET /me/activities
MeActivitiesHandler(user, order, faults) ==
    IF Falsy(SelfUserId(user))
    THEN Answer([op |-> "GET /me/activities", status |-> 401,
                 message |-> "Unauthorized", data |-> <<>>], {}, {})
    ELSE IF "auditLog.findMany" \in faults
    THEN Answer(InternalError("GET /me/activities"),
                {"Error fetching user activities"}, {"auditLog.findMany"})
    ELSE Answer([op |-> "GET /me/activities", status |-> 200, message |-> "",
                 data |-> MeActivitiesData(auditLogs, alerts, order)],
                {}, {"auditLog.findMany"})

MeActivitiesOrders(user) ==
    OrderByCreatedAtDesc(auditLogs, ActivitiesMatching(auditLogs, SelfUserId(user)))

\* the field of req.user that carries the identity
IdentityShape(user) ==
    IF ~Falsy(user.userId) THEN "userId" ELSE "id"

MeActivities(user, order, faults) ==
    \E run \in {MeActivitiesHandler(user, order, faults)} :
        Serve([op |-> "GET /me/activities", caller |-> SelfUserId(user),
               id |-> NoId, arg |-> IdentityShape(user)], run)

\* a where value of a field: an undefined value is no condition
WhereEquals(value, wanted) ==
    wanted = NULL \/ value = wanted

\* const userId = req.user.userId
SummaryUserId(user) == user.userId

\* findFirst({ where: { userId, eventType: 'LOGIN_SUCCESS' }, orderBy desc }):
\* createdAt of the newest such row, or null
LastLoginAt(logs, userId) ==
    LET rows == {i \in 1..Len(logs) :
                    WhereEquals(logs[i].userId, userId)
                    /\ logs[i].eventType = "LOGIN_SUCCESS"}
    IN  IF rows = {} THEN NoTime
        ELSE logs[CHOOSE i \in rows :
                      \A j \in rows : logs[i].createdAt >= logs[j].createdAt].createdAt

\* count of LOGIN_FAILURE rows of the last seven days
FailedLoginsLast7d(logs, userId, t) ==
    Cardinality({i \in 1..Len(logs) :
                    /\ WhereEquals(logs[i].userId, userId)
                    /\ logs[i].eventType = "LOGIN_FAILURE"
                    /\ logs[i].createdAt >= t - 7 * DayMs})

\* prisma.alert.count({ where: { userId, status: 'OPEN' } })
OpenAlertsCount(als, userId) ==
    Cardinality({i \in 1..Len(als) :
                    WhereEquals(als[i].userId, userId) /\ als[i].status = "OPEN"})

\* the three figures for a where value
SummaryData(logs, als, userId, t) ==
    [lastLoginAt |-> LastLoginAt(logs, userId),
     failedLoginsLast7d |-> FailedLoginsLast7d(logs, userId, t),
     openAlertsCount |-> OpenAlertsCount(als, userId)]

\* GET /me/summary
MeSummaryHandler(user, faults) ==
    IF faults # {}
    THEN Answer([op |-> "GET /me/summary", status |-> 500,
                 message |-> "Failed to fetch security summary", data |-> <<>>],
                {"Security summary error"}, {"auditLog.findFirst"})
    ELSE Answer([op |-> "GET /me/summary", status |-> 200, message |-> "",
                 data |-> <<SummaryData(auditLogs, alerts, SummaryUserId(user), now)>>],
                {}, {"auditLog.findFirst", "auditLog.count", "alert.count"})

MeSummary(user, faults) ==
    \E run \in {MeSummaryHandler(user, faults)} :
        Serve([op |-> "GET /me/summary", caller |-> SelfUserId(user),
               id |-> NoId, arg |-> IdentityShape(user)], run)

\* time passes
Tick(t) ==
    /\ t > now
    /\ now' = t
    /\ UNCHANGED <<auditLogs, alerts, users, req, res, console, dbCalls, call,
                   inflight>>

-----------------------------------------------------------------------------
(* The functions called on their own: csvEscape on a value, and the severity
   badge of the bookings page on a list of alerts *)

\* a call of a function becomes the next state
Call(fn, arg, ret) ==
    /\ call' = [fn |-> fn, arg |-> arg, ret |-> ret]
    /\ UNCHANGED <<auditLogs, alerts, users, now, req, res, console, dbCalls,
                   inflight>>

CsvEscapeCall(value) ==
    \E ret \in {csvEscape(value)} : Call("csvEscape", value, ret)

\* LOW: 1, MEDIUM: 2, HIGH: 3, and 0 for any other word
Rank(sev) ==
    CASE sev = "LOW" -> 1
      [] sev = "MEDIUM" -> 2
      [] sev = "HIGH" -> 3
      [] OTHER -> 0

\* a?.severity || "LOW"
SeverityOrLow(a) == IF Falsy(a.severity) THEN "LOW" ELSE a.severity

RECURSIVE PickLoop(_, _)
\* the loop: best is replaced by a severity of strictly higher rank
PickLoop(list, best) ==
    IF list = <<>> THEN best
    ELSE PickLoop(Tail(list),
                  IF Rank(SeverityOrLow(Head(list))) > Rank(best)
                  THEN SeverityOrLow(Head(list)) ELSE best)

\* pickHighestSeverity with the first alert's severity returned as it is
pickFirstSeverity(list) ==
    IF list = <<>> THEN NULL ELSE SeverityOrLow(list[1])

\* pickHighestSeverity(alerts)
pickHighestSeverity(list) ==
    IF list = <<>> THEN NULL ELSE PickLoop(list, SeverityOrLow(list[1]))

\* severityRank(sev)
severityRank(sev) ==
    CASE sev = "HIGH" -> 3
      [] sev = "MEDIUM" -> 2
      [] sev = "LOW" -> 1
      [] OTHER -> 0

PickHighestSeverityCall(list) ==
    \E ret \in {pickHighestSeverity(list)} :
        Call("pickHighestSeverity", list, <<ret>>)

-----------------------------------------------------------------------------
(* POST /mfa/verify *)

\* what jwt.verify makes of the mfaToken: rejected, or a payload: the one
\* /login signs for an MFA login ({ userId, purpose: 'mfa_login' }), or the one
\* of a session token, which has no purpose
MfaTokens ==
    {[ok |-> FALSE, purpose |-> NULL, userId |-> NULL]}
    \cup {[ok |-> TRUE, purpose |-> p, userId |-> u] :
              p \in {"mfa_login", NULL}, u \in {"u1", "u2"}}

MfaVerifyAnswer(status, message, data) ==
    [op |-> "POST /mfa/verify", status |-> status, message |-> message,
     data |-> data]

\* !user || !user.isActive || !user.mfaEnabled || !user.mfaSecret
MfaEligible(id) ==
    /\ id \in DOMAIN users
    /\ users[id].isActive
    /\ users[id].mfaEnabled
    /\ users[id].mfaSecret # NULL

\* the handler: valid is the outcome of the body validation, codeOk that of
\* speakeasy.totp.verify; no branch writes an audit row
MfaVerifyHandler(valid, token, codeOk, faults) ==
    IF ~valid
    THEN Answer(MfaVerifyAnswer(400, "Validation failed", <<>>), {}, {})
    ELSE IF ~token.ok
    THEN Answer(MfaVerifyAnswer(401, "Invalid or expired MFA token", <<>>), {}, {})
    ELSE IF token.purpose # "mfa_login"
    THEN Answer(MfaVerifyAnswer(400, "Invalid MFA token purpose", <<>>), {}, {})
    ELSE IF "user.findUnique" \in faults
    THEN Answer(MfaVerifyAnswer(500, "Internal server error", <<>>),
                {"MFA verify error"}, {"user.findUnique"})
    ELSE IF ~MfaEligible(token.userId)
    THEN Answer(MfaVerifyAnswer(401, "User not eligible for MFA login", <<>>),
                {}, {"user.findUnique"})
    ELSE IF ~codeOk
    THEN Answer(MfaVerifyAnswer(400, "Invalid MFA code", <<>>),
                {}, {"user.findUnique"})
    ELSE Answer(MfaVerifyAnswer(200, "MFA verification successful",
                                <<[token |-> "session", userId |-> token.userId]>>),
                {}, {"user.findUnique"})

MfaVerify(valid, token, codeOk, faults) ==
    \E run \in {MfaVerifyHandler(valid, token, codeOk, faults)} :
        Serve([op |-> "POST /mfa/verify", caller |-> token.userId, id |-> NoId,
               arg |-> IF codeOk THEN "code accepted" ELSE "code rejected"],
              run)

\* audit_logs_userId_fkey and alerts_userId_fkey, ON DELETE SET NULL: the rows
\* that referenced the deleted account reference none
SetNull(rows, id) ==
    [i \in 1..Len(rows) |->
        IF rows[i].userId = id THEN [rows[i] EXCEPT !.userId = NULL]
        ELSE rows[i]]

\* a row of the users table is deleted: the foreign keys rewrite both tables
UsersDelete(id) ==
    /\ id \in DOMAIN users
    /\ users' = [u \in DOMAIN users \ {id} |-> users[u]]
    /\ auditLogs' = SetNull(auditLogs, id)
    /\ alerts' = SetNull(alerts, id)
    /\ UNCHANGED <<now, req, res, console, dbCalls, call, inflight>>

-----------------------------------------------------------------------------
(* Specifications *)

Init ==
    /\ auditLogs = <<>>
    /\ alerts = <<>>
    /\ users = InitUsers
    /\ now = 0
    /\ req = NoReq
    /\ call = NoCall
    /\ inflight = NoInflight
    /\ res = NoRes
    /\ console = {}
    /\ dbCalls = {}

\* the watched account and address of the login scenarios
Watched(row) ==
    /\ row.userId = "u1"
    /\ row.ipAddress = "ip1"
    /\ row.eventType = "LOGIN_FAILURE"

\* the MFA_CHALLENGE row a login writes right after its LOGIN_SUCCESS row
ChallengeOfSuccess(logs, i) ==
    /\ i > 1
    /\ logs[i].eventType = "MFA_CHALLENGE"
    /\ logs[i - 1].eventType = "LOGIN_SUCCESS"
    /\ logs[i - 1].userId = logs[i].userId

\* rows written by other requests, a login's two rows counted once
Noise(logs) ==
    Cardinality({i \in 1..Len(logs) :
                    ~Watched(logs[i]) /\ ~ChallengeOfSuccess(logs, i)})

\* the logins the environment sends
LoginInputs ==
    {[email |-> "u1", valid |-> TRUE, passwordOk |-> FALSE, ip |-> "ip1"],
     [email |-> "u1", valid |-> TRUE, passwordOk |-> TRUE, ip |-> "ip1"],
     [email |-> "u1", valid |-> TRUE, passwordOk |-> FALSE, ip |-> "ip2"],
     [email |-> "u2", valid |-> TRUE, passwordOk |-> TRUE, ip |-> "ip1"],
     [email |-> "nobody", valid |-> TRUE, passwordOk |-> FALSE, ip |-> "ip1"],
     [email |-> "nobody", valid |-> FALSE, passwordOk |-> FALSE, ip |-> "ip1"]}

\* the storage faults a login meets: every combination for a failed login of
\* the watched account and address, a failed second write for a login with
\* MFA, none for the other logins
LoginFaults(in) ==
    IF in.email = "u1" /\ in.ip = "ip1" /\ ~in.passwordOk
    THEN {{"user.findUnique"}} \cup
         SUBSET {"auditLog.create", "auditLog.count", "alert.create"}
    ELSE IF in.email = "u2" /\ in.valid
    THEN {{}, {"auditLog.create#2"}}
    ELSE {{}}

LoginStep ==
    \E in \in LoginInputs :
        \E faults \in LoginFaults(in) :
            /\ Login(in.email, in.valid, in.passwordOk, in.ip, faults)
            /\ Len(auditLogs') <= MaxLogs
            /\ Noise(auditLogs') <= MaxNoise
            /\ Len(alerts') <= MaxAlerts

NextLogin == LoginStep

SpecLogin == Init /\ [][NextLogin]_vars

-----------------------------------------------------------------------------
(* The security console: logins that raise alerts, the admin routes, the
   user's report, and the clock *)

\* the instants of the clock
Instants == {0, 60 * 1000}

\* logins of the console scenario: failures of u1 and of u2, from ip1
ConsoleLogins == {"u1", "u2"}

\* the callers of the admin routes: the administrator and a plain user
ConsoleCallers == {"adm", "u1"}

NoQuery ==
    [page |-> NULL, limit |-> NULL, eventType |-> <<>>, userId |-> NULL,
     ipAddress |-> NULL, from |-> NoTime, to |-> NoTime, q |-> NULL,
     severity |-> NULL]

\* the queries sent to the audit-log listing and to the export
ListingQueries ==
    {[NoQuery EXCEPT !.userId = "u2"],
     [NoQuery EXCEPT !.userId = "u2", !.page = "2", !.limit = "1"],
     [NoQuery EXCEPT !.userId = "u2", !.eventType = <<"LOGIN_FAILURE", "">>,
                     !.q = "U", !.ipAddress = "ip"]}

\* the queries sent to GET /alerts
AlertQueries ==
    {[status |-> NULL, severity |-> NULL, type |-> NULL],
     [status |-> "open", severity |-> "HIGH", type |-> NULL],
     [status |-> "DONE", severity |-> NULL, type |-> NULL],
     [status |-> NULL, severity |-> NULL, type |-> "suspicious_activity"]}

\* the administrator's requests, one of them meeting a storage fault, and one
\* request of a plain user
AdminInputs(args, fault) ==
    {[caller |-> "adm", arg |-> a, faults |-> {}] : a \in args}
    \cup {[caller |-> "adm", arg |-> a, faults |-> {fault}] :
              a \in {CHOOSE x \in args : TRUE}}
    \cup {[caller |-> "u1", arg |-> a, faults |-> {}] :
              a \in {CHOOSE x \in args : TRUE}}

ConsoleLoginStep ==
    \E email \in ConsoleLogins :
        /\ Login(email, TRUE, FALSE, "ip1", {})
        /\ Len(auditLogs') <= MaxLogs
        /\ Noise(auditLogs') <= MaxNoise
        /\ Len(alerts') <= MaxConsoleAlerts

PatchAlertStep ==
    \E in \in AdminInputs((1..(Len(alerts) + 1)) \X ({NULL, "DONE"} \cup AlertStatus),
                          "alert.update") :
        PatchAlert(in.caller, in.arg[1], in.arg[2], in.faults)

ReportIncidentStep ==
    \E caller \in {"u1", "u2"},
       activityId \in {0, 1, Len(auditLogs), Len(auditLogs) + 1},
       faults \in {{}, {"auditLog.findFirst"}} :
        /\ (faults # {} => caller = "u1" /\ activityId = 1)
        /\ ReportIncident(caller, activityId, NULL, faults)

GetAlertsStep ==
    \E in \in AdminInputs(AlertQueries, "alert.findMany") :
        \E order \in GetAlertsOrders(in.arg) :
            GetAlerts(in.caller, in.arg, order, in.faults)

GetAuditLogsStep ==
    \E in \in AdminInputs(ListingQueries, "auditLog.findMany") :
        \E order \in GetAuditLogsOrders(in.arg) :
            GetAuditLogs(in.caller, in.arg, order, in.faults)

ExportCsvStep ==
    \E in \in AdminInputs(ListingQueries, "auditLog.findMany") :
        \E order \in ExportCsvOrders(in.arg) :
            ExportCsv(in.caller, in.arg, order, in.faults)

BackendGetAlertsStep ==
    \E in \in AdminInputs(AlertQueries, "alert.findMany") :
        \E order \in BackendGetAlertsOrders(in.arg) :
            BackendGetAlerts(in.caller, in.arg, order, in.faults)

SummaryStep ==
    \E in \in AdminInputs({"", "7d"}, "$queryRaw") :
        \E ipOrder \in OrderByCountDesc(
                           IpCounts(auditLogs,
                                    SummaryStart(IF Falsy(in.arg) THEN "24h"
                                                 ELSE in.arg, now))),
           typeOrder \in OrderByCountDesc(
                             TypeCounts(auditLogs,
                                        SummaryStart(IF Falsy(in.arg) THEN "24h"
                                                     ELSE in.arg, now))) :
            Summary(in.caller, in.arg, ipOrder, typeOrder, in.faults)

TickStep ==
    \E t \in Instants : Tick(t)

NextAlerts ==
    \/ ConsoleLoginStep
    \/ PatchAlertStep
    \/ ReportIncidentStep
    \/ GetAlertsStep
    \/ BackendGetAlertsStep
    \/ GetAuditLogsStep
    \/ ExportCsvStep
    \/ SummaryStep
    \/ TickStep

SpecAlerts == Init /\ [][NextAlerts]_vars

-----------------------------------------------------------------------------
(* The queries: the listings, the export, the summaries and the caller's own
   pages, run on tables the logins above can have written *)

QueryNow == 9 * DayMs

\* rows logins write, oldest first: failures and successes of u1 and u2 and of
\* an unknown e-mail, eight days, 26, 20 and 5 hours before QueryNow, some of
\* them at the same instant
QueryUniverse ==
    <<[userId |-> "u1", eventType |-> "LOGIN_FAILURE", ipAddress |-> "ip1",
       createdAt |-> QueryNow - 8 * DayMs],
      [userId |-> "u1", eventType |-> "LOGIN_FAILURE", ipAddress |-> "ip1",
       createdAt |-> QueryNow - 26 * HourMs],
      [userId |-> "u2", eventType |-> "LOGIN_FAILURE", ipAddress |-> "ip2",
       createdAt |-> QueryNow - 20 * HourMs],
      [userId |-> "u1", eventType |-> "LOGIN_FAILURE", ipAddress |-> "ip1",
       createdAt |-> QueryNow - 20 * HourMs],
      [userId |-> "u1", eventType |-> "LOGIN_SUCCESS", ipAddress |-> "ip1",
       createdAt |-> QueryNow - 20 * HourMs + 60 * 1000],
      [userId |-> NULL, eventType |-> "LOGIN_FAILURE", ipAddress |-> "ip1",
       createdAt |-> QueryNow - 5 * HourMs],
      [userId |-> "u1", eventType |-> "LOGIN_FAILURE", ipAddress |-> "ip2",
       createdAt |-> QueryNow - 5 * HourMs],
      [userId |-> "u2", eventType |-> "LOGIN_SUCCESS", ipAddress |-> "ip2",
       createdAt |-> QueryNow - 5 * HourMs + 60 * 1000]>>

\* the table that holds the rows of the universe picked by S, in their order,
\* with the ids the inserts gave them
QueryTable(S) ==
    LET idx == SortAsc(S)
    IN  [k \in 1..Len(idx) |->
            [id |-> k,
             userId |-> QueryUniverse[idx[k]].userId,
             eventType |-> QueryUniverse[idx[k]].eventType,
             ipAddress |-> QueryUniverse[idx[k]].ipAddress,
             createdAt |-> QueryUniverse[idx[k]].createdAt]]

\* a table beyond the cap of the activity page: logins of u1, eleven minutes
\* apart, failed and successful in turn, and one failed login of u2
LongTable ==
    [k \in 1..(ActivitiesCap + 2) |->
        [id |-> k,
         userId |-> IF k = 3 THEN "u2" ELSE "u1",
         eventType |-> IF k % 2 = 0 THEN "LOGIN_SUCCESS" ELSE "LOGIN_FAILURE",
         ipAddress |-> "ip1",
         createdAt |-> QueryNow - (ActivitiesCap + 2 - k) * 11 * 60 * 1000]]

QueryTables ==
    {QueryTable(S) : S \in {T \in SUBSET (1..Len(QueryUniverse)) :
                                Cardinality(T) <= MaxQueryRows}}
    \cup {LongTable}

InitQuery ==
    /\ auditLogs \in QueryTables
    /\ alerts = <<>>
    /\ users = InitUsers
    /\ now = QueryNow
    /\ req = NoReq
    /\ res = NoRes
    /\ console = {}
    /\ dbCalls = {}
    /\ call = NoCall
    /\ inflight = NoInflight

\* the callers of the self pages: u1 under either field, u2
SelfCallers == {ByUserId("u1"), ById("u1"), ByUserId("u2")}

\* the queries sent to the listing and to the export
WideQueries ==
    {NoQuery,
     [NoQuery EXCEPT !.page = "1", !.limit = "2"],
     [NoQuery EXCEPT !.page = "2", !.limit = "2"],
     [NoQuery EXCEPT !.page = "3", !.limit = "500"],
     [NoQuery EXCEPT !.page = "abc", !.limit = "-1"],
     [NoQuery EXCEPT !.eventType = <<"LOGIN_FAILURE">>, !.userId = "u1"],
     [NoQuery EXCEPT !.eventType = <<"LOGIN_FAILURE", "LOGIN_SUCCESS">>,
                     !.ipAddress = "ip"],
     [NoQuery EXCEPT !.eventType = <<"LOGIN_FAILURE", "">>],
     [NoQuery EXCEPT !.q = "U1", !.from = QueryNow - DayMs],
     [NoQuery EXCEPT !.to = QueryNow - 20 * HourMs],
     [NoQuery EXCEPT !.severity = "HIGH"]}

MeActivitiesStep ==
    \E user \in SelfCallers, faults \in {{}, {"auditLog.findMany"}} :
        \E order \in MeActivitiesOrders(user) :
            MeActivities(user, order, faults)

MeSummaryStep ==
    \E user \in SelfCallers, faults \in {{}, {"auditLog.findFirst"}} :
        MeSummary(user, faults)

QueryListingStep ==
    \E q \in WideQueries :
        \E order \in GetAuditLogsOrders(q) :
            GetAuditLogs("adm", q, order, {})

QueryExportStep ==
    \E q \in WideQueries :
        \E order \in ExportCsvOrders(q) :
            ExportCsv("adm", q, order, {})

QuerySummaryStep ==
    \E window \in {"", "24h", "7d"} :
        \E ipOrder \in OrderByCountDesc(
                           IpCounts(auditLogs,
                                    SummaryStart(IF Falsy(window) THEN "24h"
                                                 ELSE window, now))),
           typeOrder \in OrderByCountDesc(
                             TypeCounts(auditLogs,
                                        SummaryStart(IF Falsy(window) THEN "24h"
                                                     ELSE window, now))) :
            Summary("adm", window, ipOrder, typeOrder, {})

NextQuery ==
    \/ MeActivitiesStep
    \/ MeSummaryStep
    \/ QueryListingStep
    \/ QueryExportStep
    \/ QuerySummaryStep

SpecQuery == InitQuery /\ [][NextQuery]_vars

-----------------------------------------------------------------------------
(* Logins followed by the second factor *)

\* the logins of the scenario: u1 and u2, with the right or the wrong password
MfaLoginStep ==
    \E email \in {"u1", "u2"}, passwordOk \in BOOLEAN :
        /\ Login(email, TRUE, passwordOk, "ip1", {})
        /\ Len(auditLogs') <= MaxLogs
        /\ Len(alerts') <= MaxAlerts

MfaVerifyStep ==
    \E valid \in BOOLEAN, token \in MfaTokens, codeOk \in BOOLEAN,
       faults \in {{}, {"user.findUnique"}} :
        MfaVerify(valid, token, codeOk, faults)

NextMfa ==
    \/ MfaLoginStep
    \/ MfaVerifyStep

SpecMfa == Init /\ [][NextMfa]_vars

-----------------------------------------------------------------------------
(* The functions on their inputs, and the export on tables with rows of a
   known account and of none *)

\* the tokens of the texts handed to csvEscape
Alphabet == {Quote, ",", "\n", "a"}

\* the texts of at most MaxLen tokens, and the null value
Values ==
    {NoText} \cup UNION {[1..n -> Alphabet] : n \in 0..MaxLen}

\* the lists of at most MaxLinked alerts, as the listing includes them
AlertLists ==
    UNION {[1..n -> {[severity |-> v] : v \in AlertSeverity}] : n \in 0..MaxLinked}

FunctionTables == {QueryTable(S) : S \in SUBSET {5, 6}}

InitFunctions ==
    /\ auditLogs \in FunctionTables
    /\ alerts = <<>>
    /\ users = InitUsers
    /\ now = QueryNow
    /\ req = NoReq
    /\ res = NoRes
    /\ console = {}
    /\ dbCalls = {}
    /\ call = NoCall
    /\ inflight = NoInflight

CsvEscapeStep ==
    \E value \in Values : CsvEscapeCall(value)

PickHighestSeverityStep ==
    \E list \in AlertLists : PickHighestSeverityCall(list)

FunctionsExportStep ==
    \E order \in ExportCsvOrders(NoQuery) :
        ExportCsv("adm", NoQuery, order, {})

NextFunctions ==
    \/ CsvEscapeStep
    \/ PickHighestSeverityStep
    \/ FunctionsExportStep

SpecFunctions == InitFunctions /\ [][NextFunctions]_vars

-----------------------------------------------------------------------------
(* Failed logins around the edge of the ten-minute window *)

\* the instants of the clock: three, a second apart, and the same three ten
\* minutes later
WindowInstants ==
    {0, 1000, 2000, 10 * 60 * 1000, 10 * 60 * 1000 + 1000, 10 * 60 * 1000 + 2000}

WindowLoginStep ==
    \E faults \in {{}, {"alert.create"}} :
        /\ Login("u1", TRUE, FALSE, "ip1", faults)
        /\ Len(auditLogs') <= MaxLogs
        /\ Len(alerts') <= MaxAlerts

WindowTickStep ==
    \E t \in WindowInstants : Tick(t)

NextWindow ==
    \/ WindowLoginStep
    \/ WindowTickStep

SpecWindow == Init /\ [][NextWindow]_vars

-----------------------------------------------------------------------------
(* Failed logins of several accounts from several addresses *)

\* the failed logins: of u1 from two addresses and from an unknown one, of
\* u2 and of an unknown e-mail from the first address
ScopeLogins ==
    {[email |-> "u1", userId |-> "u1", ip |-> "ip1"],
     [email |-> "u1", userId |-> "u1", ip |-> "ip2"],
     [email |-> "u1", userId |-> "u1", ip |-> NULL],
     [email |-> "u2", userId |-> "u2", ip |-> "ip1"],
     [email |-> "nobody", userId |-> NULL, ip |-> "ip1"]}

ScopeLoginStep ==
    \E in \in ScopeLogins :
        /\ Login(in.email, TRUE, FALSE, in.ip, {})
        /\ Len(auditLogs') <= MaxScopeLogs
        /\ Len(alerts') <= MaxAlerts

NextScope == ScopeLoginStep

SpecScope == Init /\ [][NextScope]_vars

-----------------------------------------------------------------------------
(* Failed logins of one account from one address, one after the other, every
   write served, within ten minutes; the administrator lists the alerts *)

RepeatLoginStep ==
    /\ Login("u1", TRUE, FALSE, "ip1", {})
    /\ Len(auditLogs') <= MaxLogs

NextRepeat ==
    \/ RepeatLoginStep
    \/ GetAlertsStep
    \/ TickStep

SpecRepeat == Init /\ [][NextRepeat]_vars

-----------------------------------------------------------------------------
(* Concurrent failed logins of one account from one address: earlier failures,
   served one at a time, then requests whose awaits interleave; the count
   query may throw, the writes are served *)

RaceInstants == {0, TenMinutesMs, TenMinutesMs + 1}

\* rows written and rows that requests in progress are about to write
RaceRows ==
    Len(auditLogs) + Cardinality({r \in Slots : inflight[r].pc = "audit"})

RacePriorStep ==
    /\ \A r \in Slots : inflight[r].pc = "idle"
    /\ RaceRows < MaxRaceLogs
    /\ Login("u1", TRUE, FALSE, "ip1", {})

RaceArriveStep ==
    \E r \in Slots :
        /\ RaceRows < MaxRaceLogs
        /\ InflightArrive(r, "u1", "ip1")

RaceAuditStep == \E r \in Slots : InflightAudit(r)

RaceCountStep == \E r \in Slots : \E fault \in BOOLEAN : InflightCount(r, fault)

RaceAlertStep == \E r \in Slots : InflightAlert(r)

RaceSendStep == \E r \in Slots : InflightSend(r)

RaceTickStep == \E t \in RaceInstants : Tick(t)

NextRace ==
    \/ RacePriorStep
    \/ RaceArriveStep
    \/ RaceAuditStep
    \/ RaceCountStep
    \/ RaceAlertStep
    \/ RaceSendStep
    \/ RaceTickStep

SpecRace == Init /\ [][NextRace]_vars

-----------------------------------------------------------------------------
(* The routes of /api/auth that read or change the caller's account: GET /me,
   POST /oauth/link and /oauth/unlink, which verify the bearer token
   themselves, and POST /mfa/setup, /mfa/confirm and /mfa/disable behind the
   auth middleware *)

\* no Authorization header
NoBearer == [ok |-> FALSE, purpose |-> "absent", userId |-> NULL]

\* what jwt.verify makes of the bearer token, as for the mfaToken
BearerTokens == MfaTokens \cup {NoBearer}

AccountFaults == {"user.findUnique", "user.findFirst", "user.update"}

\* a handler's run on the users table
AccountRun(table, response, logged, calls) ==
    [users |-> table, res |-> response, console |-> logged, calls |-> calls]

AccountAnswer(op, status, message, data) ==
    [op |-> op, status |-> status, message |-> message, data |-> data]

\* a handler's run on the users table becomes the next state
ServeAccount(request, run) ==
    /\ req' = request
    /\ users' = run.users
    /\ console' = run.console
    /\ res' = run.res
    /\ dbCalls' = run.calls
    /\ UNCHANGED <<auditLogs, alerts, now, call, inflight>>

\* GET /me
GetMeHandler(token) ==
    IF token = NoBearer
    THEN AccountRun(users, AccountAnswer("GET /me", 401, "No token provided", <<>>),
                    {}, {})
    ELSE IF ~token.ok
    THEN AccountRun(users, AccountAnswer("GET /me", 401, "Invalid token", <<>>),
                    {"Auth me error"}, {})
    ELSE IF token.userId \notin DOMAIN users
    THEN AccountRun(users, AccountAnswer("GET /me", 401, "User not found", <<>>),
                    {}, {"user.findUnique"})
    ELSE AccountRun(users,
                    AccountAnswer("GET /me", 200, "",
                                  <<[id |-> token.userId,
                                     role |-> users[token.userId].role,
                                     mfaEnabled |-> users[token.userId].mfaEnabled]>>),
                    {}, {"user.findUnique"})

GetMe(token) ==
    \E run \in {GetMeHandler(token)} :
        ServeAccount([op |-> "GET /me", caller |-> token.userId, id |-> NoId,
                      arg |-> token.purpose], run)

\* the values of provider in a body: absent, a word that names no provider,
\* and google
ProviderWords == {"", "gitlab", "google"}

\* the values of providerId in a body
ProviderIds == {"", "g1", "g2"}

\* prisma.user.findFirst({ where: { googleId, id: { not } } })
LinkedElsewhere(providerId, userId) ==
    \E u \in DOMAIN users : u # userId /\ users[u].googleId = providerId

\* POST /oauth/link
OauthLinkHandler(token, provider, providerId, faults) ==
    IF token = NoBearer
    THEN AccountRun(users,
                    AccountAnswer("POST /oauth/link", 401, "No token provided", <<>>),
                    {}, {})
    ELSE IF ~token.ok
    THEN AccountRun(users, InternalError("POST /oauth/link"),
                    {"OAuth link error"}, {})
    ELSE IF Falsy(provider) \/ Falsy(providerId)
    THEN AccountRun(users,
                    AccountAnswer("POST /oauth/link", 400,
                                  "Provider and providerId are required", <<>>),
                    {}, {})
    ELSE IF provider # "google"
    THEN AccountRun(users,
                    AccountAnswer("POST /oauth/link", 400, "Invalid provider", <<>>),
                    {}, {})
    ELSE IF "user.findFirst" \in faults
    THEN AccountRun(users, InternalError("POST /oauth/link"),
                    {"OAuth link error"}, {"user.findFirst"})
    ELSE IF LinkedElsewhere(providerId, token.userId)
    THEN AccountRun(users,
                    AccountAnswer("POST /oauth/link", 409,
                                  "already linked to another user", <<>>),
                    {}, {"user.findFirst"})
    ELSE IF "user.update" \in faults \/ token.userId \notin DOMAIN users
    THEN AccountRun(users, InternalError("POST /oauth/link"),
                    {"OAuth link error"}, {"user.findFirst", "user.update"})
    ELSE AccountRun([users EXCEPT ![token.userId].googleId = providerId],
                    AccountAnswer("POST /oauth/link", 200,
                                  "account linked successfully",
                                  <<[id |-> token.userId, googleId |-> providerId]>>),
                    {}, {"user.findFirst", "user.update"})

OauthLink(token, provider, providerId, faults) ==
    \E run \in {OauthLinkHandler(token, provider, providerId, faults)} :
        ServeAccount([op |-> "POST /oauth/link", caller |-> token.userId,
                      id |-> NoId, arg |-> token.purpose], run)

\* POST /oauth/unlink
OauthUnlinkHandler(token, provider, faults) ==
    IF token = NoBearer
    THEN AccountRun(users,
                    AccountAnswer("POST /oauth/unlink", 401, "No token provided", <<>>),
                    {}, {})
    ELSE IF ~token.ok
    THEN AccountRun(users, InternalError("POST /oauth/unlink"),
                    {"OAuth unlink error"}, {})
    ELSE IF Falsy(provider)
    THEN AccountRun(users,
                    AccountAnswer("POST /oauth/unlink", 400, "Provider is required", <<>>),
                    {}, {})
    ELSE IF provider # "google"
    THEN AccountRun(users,
                    AccountAnswer("POST /oauth/unlink", 400, "Invalid provider", <<>>),
                    {}, {})
    ELSE IF "user.update" \in faults \/ token.userId \notin DOMAIN users
    THEN AccountRun(users, InternalError("POST /oauth/unlink"),
                    {"OAuth unlink error"}, {"user.update"})
    ELSE AccountRun([users EXCEPT ![token.userId].googleId = NULL],
                    AccountAnswer("POST /oauth/unlink", 200,
                                  "account unlinked successfully",
                                  <<[id |-> token.userId, googleId |-> NULL]>>),
                    {}, {"user.update"})

OauthUnlink(token, provider, faults) ==
    \E run \in {OauthUnlinkHandler(token, provider, faults)} :
        ServeAccount([op |-> "POST /oauth/unlink", caller |-> token.userId,
                      id |-> NoId, arg |-> token.purpose], run)

\* the secrets speakeasy.generateSecret may return
Secrets == {"s1", "s2"}

\* POST /mfa/setup: user is req.user, secret the one speakeasy generates
MfaSetupHandler(user, secret, faults) ==
    IF user.id = NULL \/ "user.findUnique" \in faults
    THEN AccountRun(users, InternalError("POST /mfa/setup"),
                    {"MFA setup error"}, {"user.findUnique"})
    ELSE IF user.id \notin DOMAIN users
    THEN AccountRun(users,
                    AccountAnswer("POST /mfa/setup", 404, "User not found", <<>>),
                    {}, {"user.findUnique"})
    ELSE IF "user.update" \in faults
    THEN AccountRun(users, InternalError("POST /mfa/setup"),
                    {"MFA setup error"}, {"user.findUnique", "user.update"})
    ELSE AccountRun([users EXCEPT ![user.id].mfaSecret = secret],
                    AccountAnswer("POST /mfa/setup", 200, "MFA setup initiated",
                                  <<[secret |-> secret]>>),
                    {}, {"user.findUnique", "user.update"})

MfaSetup(user, secret, faults) ==
    \E run \in {MfaSetupHandler(user, secret, faults)} :
        ServeAccount([op |-> "POST /mfa/setup", caller |-> user.id, id |-> NoId,
                      arg |-> secret], run)

\* POST /mfa/confirm: valid is the outcome of the body validation, codeOk
\* that of speakeasy.totp.verify on the stored secret
MfaConfirmHandler(user, valid, codeOk, faults) ==
    IF ~valid
    THEN AccountRun(users,
                    AccountAnswer("POST /mfa/confirm", 400, "Validation failed", <<>>),
                    {}, {})
    ELSE IF user.id = NULL \/ "user.findUnique" \in faults
    THEN AccountRun(users, InternalError("POST /mfa/confirm"),
                    {"MFA confirm error"}, {"user.findUnique"})
    ELSE IF user.id \notin DOMAIN users \/ users[user.id].mfaSecret = NULL
    THEN AccountRun(users,
                    AccountAnswer("POST /mfa/confirm", 400,
                                  "MFA not initialized for this user", <<>>),
                    {}, {"user.findUnique"})
    ELSE IF ~codeOk
    THEN AccountRun(users,
                    AccountAnswer("POST /mfa/confirm", 400, "Invalid MFA code", <<>>),
                    {}, {"user.findUnique"})
    ELSE IF "user.update" \in faults
    THEN AccountRun(users, InternalError("POST /mfa/confirm"),
                    {"MFA confirm error"}, {"user.findUnique", "user.update"})
    ELSE AccountRun([users EXCEPT ![user.id].mfaEnabled = TRUE],
                    AccountAnswer("POST /mfa/confirm", 200,
                                  "MFA enabled successfully", <<>>),
                    {}, {"user.findUnique", "user.update"})

MfaConfirm(user, valid, codeOk, faults) ==
    \E run \in {MfaConfirmHandler(user, valid, codeOk, faults)} :
        ServeAccount([op |-> "POST /mfa/confirm", caller |-> user.id, id |-> NoId,
                      arg |-> IF ~valid THEN "code malformed"
                              ELSE IF codeOk THEN "code accepted"
                              ELSE "code rejected"], run)

\* POST /mfa/disable
MfaDisableHandler(user, faults) ==
    IF user.id = NULL \/ user.id \notin DOMAIN users \/ "user.update" \in faults
    THEN AccountRun(users, InternalError("POST /mfa/disable"),
                    {"Disable MFA error"}, {"user.update"})
    ELSE AccountRun([users EXCEPT ![user.id].mfaEnabled = FALSE,
                                  ![user.id].mfaSecret = NULL],
                    AccountAnswer("POST /mfa/disable", 200,
                                  "MFA disabled successfully", <<>>),
                    {}, {"user.update"})

MfaDisable(user, faults) ==
    \E run \in {MfaDisableHandler(user, faults)} :
        ServeAccount([op |-> "POST /mfa/disable", caller |-> user.id, id |-> NoId,
                      arg |-> ""], run)

-----------------------------------------------------------------------------
(* The accounts of u1 and u2: bearer tokens presented to GET /me and the OAuth
   routes, and the enrolment of the second factor *)

AccountTokens ==
    {NoBearer,
     [ok |-> FALSE, purpose |-> NULL, userId |-> NULL],
     [ok |-> TRUE, purpose |-> NULL, userId |-> "u1"],
     [ok |-> TRUE, purpose |-> "mfa_login", userId |-> "u2"]}

\* req.user of the enrolment routes
EnrollIdentities == {ById("u1"), ById("u2"), ByUserId("u1")}

AccountMeStep == \E token \in AccountTokens : GetMe(token)

AccountLinkStep ==
    \E token \in AccountTokens, provider \in ProviderWords,
       providerId \in ProviderIds :
        \E faults \in {{}, {"user.findFirst"}, {"user.update"}} :
            OauthLink(token, provider, providerId, faults)

AccountUnlinkStep ==
    \E token \in AccountTokens, provider \in ProviderWords :
        \E faults \in {{}, {"user.update"}} :
            OauthUnlink(token, provider, faults)

EnrollSetupStep ==
    \E user \in EnrollIdentities, secret \in Secrets :
        \E faults \in {{}, {"user.findUnique"}, {"user.update"}} :
            /\ user.id \in DOMAIN users => users[user.id].mfaSecret # secret
            /\ MfaSetup(user, secret, faults)

EnrollConfirmStep ==
    \E user \in EnrollIdentities, valid \in BOOLEAN, codeOk \in BOOLEAN :
        \E faults \in {{}, {"user.findUnique"}, {"user.update"}} :
            MfaConfirm(user, valid, codeOk, faults)

EnrollDisableStep ==
    \E user \in EnrollIdentities :
        \E faults \in {{}, {"user.update"}} :
            MfaDisable(user, faults)

NextAccount ==
    \/ AccountMeStep
    \/ AccountLinkStep
    \/ AccountUnlinkStep
    \/ EnrollSetupStep
    \/ EnrollConfirmStep
    \/ EnrollDisableStep

SpecAccount == Init /\ [][NextAccount]_vars

-----------------------------------------------------------------------------
(* The tables under the schema: logins, the clock, and deletions of accounts
   with the referential actions of the foreign keys *)

\* the accounts that get deleted
Deleted == {"u1", "u2"}

SchemaLoginStep ==
    \E email \in ConsoleLogins :
        /\ Login(email, TRUE, FALSE, "ip1", {})
        /\ Len(auditLogs') <= MaxLogs
        /\ Len(alerts') <= MaxConsoleAlerts

UsersDeleteStep ==
    \E id \in Deleted : UsersDelete(id)

NextSchema ==
    \/ SchemaLoginStep
    \/ UsersDeleteStep
    \/ TickStep

SpecSchema == Init /\ [][NextSchema]_vars

-----------------------------------------------------------------------------
(* Brute-force threshold *)

\* LOGIN_FAILURE rows of the watched account and address in the trailing
\* ten minutes
WatchedInWindow(logs, t) ==
    Cardinality({i \in 1..Len(logs) :
                    Watched(logs[i]) /\ logs[i].createdAt >= t - TenMinutesMs})

StorageFaults == SUBSET {"auditLog.create", "auditLog.count", "alert.create"}

\* C1: from a store with exactly 4 in-window LOGIN_FAILURE rows of u1/ip1, one
\* more failed login of u1 from ip1 (its row recorded, its count and alert
\* write served) appends exactly one alert, a BRUTE_FORCE one, and never more
\* than one whatever the storage does; from exactly 3 such rows the next
\* failed login appends none.
C1_Threshold ==
    \A faults \in StorageFaults :
        LET run == LoginHandler("u1", TRUE, FALSE, "ip1", faults)
            n == WatchedInWindow(auditLogs, now)
        IN  /\ (n = 4 /\ faults = {}) =>
                /\ Len(run.alerts) = Len(alerts) + 1
                /\ SubSeq(run.alerts, 1, Len(alerts)) = alerts
                /\ run.alerts[Len(run.alerts)].type = "BRUTE_FORCE"
                /\ run.alerts[Len(run.alerts)].userId = "u1"
            /\ n = 4 => Len(run.alerts) <= Len(alerts) + 1
            /\ n = 3 => run.alerts = alerts

\* the fifth failed login of u1 from ip1 has been answered, beside a row of
\* another request, and the store holds the one alert it raised
C1_Witness ==
    /\ res.op = "POST /login" /\ res.status = 401 /\ console = {}
    /\ Len(auditLogs) = 6
    /\ Watched(auditLogs[6])
    /\ WatchedInWindow(auditLogs, now) = 5
    /\ Len(alerts) = 1
    /\ alerts[1].type = "BRUTE_FORCE"
    /\ alerts[1].description.count = 5

\* C2: a step that records a LOGIN_FAILURE row and raises a BRUTE_FORCE alert
\* stores that row's id as the alert's auditLogId.
C2_AlertReferencesEvent ==
    [][(/\ Len(auditLogs') = Len(auditLogs) + 1
        /\ auditLogs'[Len(auditLogs')].eventType = "LOGIN_FAILURE"
        /\ Len(alerts') = Len(alerts) + 1
        /\ alerts'[Len(alerts')].type = "BRUTE_FORCE")
       => alerts'[Len(alerts')].auditLogId = auditLogs'[Len(auditLogs')].id]_vars

-----------------------------------------------------------------------------
(* Detection and recording are advisory *)

\* C3: whatever storage calls of the audit write, the count and the alert write
\* fail, a login is answered with the outcome its credentials decide (401,
\* MFA required, login successful), never with an error.
C3_OutcomeIndependentOfStorage ==
    \A in \in LoginInputs :
        \A faults \in SUBSET (Faults \ {"user.findUnique"}) :
            in.valid =>
                LoginHandler(in.email, in.valid, in.passwordOk, in.ip, faults).res
                    = LoginResponse(FindUserByEmail(in.email), in.passwordOk)

\* a failed login has been answered 401 although its audit write and its
\* alert write both failed
C3_Witness ==
    /\ res.op = "POST /login" /\ res.status = 401
    /\ console = {"Failed to write AuditLog", "Failed to create Alert"}

-----------------------------------------------------------------------------
(* The alert lifecycle *)

\* C4: in every reachable state each alert has a resolvedAt exactly when its
\* status is RESOLVED.
C4_ResolvedAtIffResolved ==
    \A i \in 1..Len(alerts) :
        alerts[i].resolvedAt # NoTime <=> alerts[i].status = "RESOLVED"

\* the administrator has just resolved an alert, after the clock moved: it is
\* RESOLVED and stamped with the present instant
C4_Witness ==
    /\ req.op = "PATCH /alerts/:id" /\ req.arg = "RESOLVED" /\ res.status = 200
    /\ req.id \in 1..Len(alerts)
    /\ now > 0
    /\ alerts[req.id].status = "RESOLVED"
    /\ alerts[req.id].resolvedAt = now

\* the body status values that are missing or outside the enumeration
BadStatuses == {NULL, "", "DONE", "open"}

\* C5: a PATCH by the administrator whose status is missing or not one of
\* OPEN, ACKNOWLEDGED, RESOLVED is answered 400, makes no storage call and
\* leaves every alert as it was, whether or not the id names an alert.
C5_InvalidStatusRejected ==
    \A id \in 1..(Len(alerts) + 1) :
        \A status \in BadStatuses :
            LET run == PatchAlertHandler("adm", id, status, {})
            IN  /\ run.res.status = 400
                /\ run.alerts = alerts
                /\ run.logs = auditLogs
                /\ run.calls = {}

\* the administrator's PATCH with the status DONE on a stored alert has been
\* answered 400
C5_Witness ==
    /\ req.op = "PATCH /alerts/:id" /\ req.caller = "adm" /\ req.arg = "DONE"
    /\ req.id \in 1..Len(alerts)
    /\ res.status = 400 /\ res.message = "Invalid status value"
    /\ dbCalls = {}

\* C6: a PATCH by the administrator with a valid status and an id that names
\* no alert is answered with a not-found error, which is not the answer of a
\* storage failure, and changes no alert.
C6_MissingAlertNotFound ==
    \A status \in AlertStatus :
        LET run == PatchAlertHandler("adm", Len(alerts) + 1, status, {})
        IN  /\ run.res.status = 404
            /\ run.res # PatchAlertHandler("adm", Len(alerts) + 1, status,
                                           {"alert.update"}).res
            /\ run.alerts = alerts

C8_SameStatusNoOp ==
    \A i \in 1..Len(alerts) :
        LET run == PatchAlertHandler("adm", i, alerts[i].status, {})
        IN  /\ run.res.status = 200
            /\ run.alerts = alerts

-----------------------------------------------------------------------------
(* Authorization of the admin routes *)

\* a run that answered 403, returned no data, made no storage call and left
\* both tables as they were
Rejected(run) ==
    /\ run.res.status = 403
    /\ run.res.data = <<>>
    /\ run.logs = auditLogs
    /\ run.alerts = alerts
    /\ run.calls = {}

\* C9: each of the five admin routes answers a caller whose role is not ADMIN
\* with 403 before any storage call: no row of either table changes and no
\* data is returned, whatever the request and whatever the storage would do.
C9_NonAdminRejected ==
    \A caller \in {c \in Callers : users[c].role # "ADMIN"} :
        /\ \A id \in 1..(Len(alerts) + 1), status \in BodyStatuses,
              faults \in {{}, {"alert.update"}} :
               Rejected(PatchAlertHandler(caller, id, status, faults))
        /\ \A q \in AlertQueries, faults \in {{}, {"alert.findMany"}} :
               \A order \in GetAlertsOrders(q) :
                   Rejected(GetAlertsHandler(caller, q, order, faults))
        /\ \A q \in ListingQueries, faults \in {{}, {"auditLog.findMany"}} :
               /\ \A order \in GetAuditLogsOrders(q) :
                      Rejected(GetAuditLogsHandler(caller, q, order, faults))
               /\ \A order \in ExportCsvOrders(q) :
                      Rejected(ExportCsvHandler(caller, q, order, faults))
        /\ \A window \in {"", "24h", "7d"}, faults \in {{}, {"$queryRaw"}} :
               Rejected(SummaryHandler(caller, window, <<>>, <<>>, faults))

\* a plain user's PATCH on a stored alert has been answered 403 without a
\* storage call
C9_Witness ==
    /\ req.op = "PATCH /alerts/:id" /\ req.caller = "u1"
    /\ Len(alerts) >= 1
    /\ res.status = 403 /\ res.data = <<>>
    /\ dbCalls = {}

-----------------------------------------------------------------------------
(* Reports of activities *)

\* C10: a report by a user that names an activity which does not exist, or
\* one recorded for another account, gets the same 404 answer in both cases
\* and appends no alert; and no stored alert of a user references an audit
\* row of another account.
C10_ReportForeignActivity ==
    /\ \A caller \in {"u1", "u2"} :
           \A activityId \in 1..(Len(auditLogs) + 1), note \in {NULL, "note"} :
               (\/ activityId > Len(auditLogs)
                \/ auditLogs[activityId].userId # caller) =>
                   LET run == ReportIncidentHandler(caller, activityId, note, {})
                   IN  /\ run.res = ActivityNotFound
                       /\ run.alerts = alerts
                       /\ run.logs = auditLogs
    /\ \A i \in 1..Len(alerts) :
           alerts[i].auditLogId # NoId =>
               auditLogs[alerts[i].auditLogId].userId = alerts[i].userId

\* u1 has reported a row recorded for u2 and got the 404
C10_Witness ==
    /\ req.op = "POST /me/report-incident" /\ req.caller = "u1"
    /\ req.id \in 1..Len(auditLogs)
    /\ auditLogs[req.id].userId = "u2"
    /\ res = ActivityNotFound
    /\ dbCalls = {"auditLog.findFirst"}

\* the activities a caller may name in a report: none, or a row of their own
OwnActivities(caller) ==
    {NoId} \cup {i \in 1..Len(auditLogs) : auditLogs[i].userId = caller}

\* C11: a report by an authenticated user that names no activity or one of
\* their own appends exactly one alert, of type SUSPICIOUS_ACTIVITY, severity
\* HIGH, status OPEN, no resolvedAt, owned by the caller, described by the
\* trimmed note or by the default text when the note is absent or blank.
C11_ReportCreatesAlert ==
    \A caller \in {"u1", "u2"} :
        \A activityId \in OwnActivities(caller), note \in Notes :
            LET run == ReportIncidentHandler(caller, activityId, note, {})
                new == run.alerts[Len(run.alerts)]
            IN  /\ Len(run.alerts) = Len(alerts) + 1
                /\ SubSeq(run.alerts, 1, Len(alerts)) = alerts
                /\ new.type = "SUSPICIOUS_ACTIVITY"
                /\ new.severity = "HIGH"
                /\ new.status = "OPEN"
                /\ new.resolvedAt = NoTime
                /\ new.userId = caller
                /\ new.auditLogId = activityId
                /\ new.description.text = ReportDescription(note)
                /\ run.res.status = 200

-----------------------------------------------------------------------------
(* The caller's own pages *)

\* the tables with every row of another account, or of none, rewritten
OthersChanged(logs, userId) ==
    [i \in 1..Len(logs) |->
        IF logs[i].userId = userId THEN logs[i]
        ELSE [logs[i] EXCEPT !.userId = NULL, !.eventType = "LOGIN_SUCCESS",
                             !.ipAddress = "ip2", !.createdAt = now]]

\* C12: for every caller and every order the database may pick, the activity
\* page answers with at most 20 rows (all of the caller's when these are
\* fewer), each of the caller and of a login-related type, newest first; and
\* the answers are the same when the rows of other accounts are rewritten.
C12_OwnActivitiesOnly ==
    \A user \in Identities :
        /\ \A order \in MeActivitiesOrders(user) :
               LET run == MeActivitiesHandler(user, order, {})
                   rows == run.res.data
               IN  /\ run.res.status = 200
                   /\ Len(rows) <= 20
                   /\ Len(rows) =
                          Min(20, Cardinality({i \in 1..Len(auditLogs) :
                                     /\ auditLogs[i].userId = SelfUserId(user)
                                     /\ auditLogs[i].eventType \in LoginRelated}))
                   /\ \A k \in 1..Len(rows) :
                          /\ rows[k].userId = SelfUserId(user)
                          /\ rows[k].eventType \in LoginRelated
                          /\ auditLogs[rows[k].id].userId = SelfUserId(user)
                   /\ \A k \in 1..(Len(rows) - 1) :
                          rows[k].createdAt >= rows[k + 1].createdAt
        /\ ActivitiesResults(auditLogs, alerts, SelfUserId(user))
               = ActivitiesResults(OthersChanged(auditLogs, SelfUserId(user)),
                                   alerts, SelfUserId(user))

\* u1 has asked for the activity page of a table that holds 21 rows of u1 and
\* one of u2, and got 20 rows
C12_Witness ==
    /\ req.op = "GET /me/activities" /\ req.caller = "u1"
    /\ res.status = 200
    /\ Len(res.data) = ActivitiesCap
    /\ Cardinality({i \in 1..Len(auditLogs) : auditLogs[i].userId = "u1"})
           > ActivitiesCap
    /\ \E i \in 1..Len(auditLogs) : auditLogs[i].userId = "u2"

\* C13: for every identity the activity page accepts, carried as userId or as
\* id, the summary answers with the newest LOGIN_SUCCESS of the caller, the
\* count of the caller's LOGIN_FAILURE rows of the last seven days and the
\* count of the caller's OPEN alerts.
C13_SummaryOfCallerOnly ==
    \A user \in Identities :
        LET run == MeSummaryHandler(user, {})
        IN  /\ run.res.status = 200
            /\ run.res.data =
                   <<SummaryData(auditLogs, alerts, SelfUserId(user), now)>>

-----------------------------------------------------------------------------
(* The audit log is append-only *)

\* C14: every step keeps every audit row that existed before it, with every
\* field as it was: no row is updated and none is deleted.
C14_AppendOnly ==
    [][\A i \in 1..Len(auditLogs) :
          /\ i <= Len(auditLogs')
          /\ auditLogs'[i] = auditLogs[i]]_vars

-----------------------------------------------------------------------------
(* Every authentication action is recorded *)

\* the rows a run appended
Appended(run) ==
    SubSeq(run.logs, Len(auditLogs) + 1, Len(run.logs))

\* the MFA logins that were challenged: the accounts a login signed an
\* mfa_login token for
Challenged ==
    {auditLogs[i].userId : i \in {j \in 1..Len(auditLogs) :
                                     auditLogs[j].eventType = "MFA_CHALLENGE"}}

\* C15: with a store that accepts every write, a failed login appends one
\* LOGIN_FAILURE row, a successful one a LOGIN_SUCCESS row, followed by an
\* MFA_CHALLENGE row when the second factor is required; and a /mfa/verify of
\* a challenged login appends one MFA_SUCCESS row when it accepts the code and
\* one MFA_FAILURE row when it rejects it.
C15_AuthActionsAudited ==
    /\ \A email \in {"u1", "u2"}, passwordOk \in BOOLEAN :
           LET run == LoginHandler(email, TRUE, passwordOk, "ip1", {})
               types == [k \in 1..Len(Appended(run)) |-> Appended(run)[k].eventType]
           IN  types = IF run.res.status = 401 THEN <<"LOGIN_FAILURE">>
                       ELSE IF run.res.message = "MFA required"
                       THEN <<"LOGIN_SUCCESS", "MFA_CHALLENGE">>
                       ELSE <<"LOGIN_SUCCESS">>
    /\ \A u \in Challenged \cap DOMAIN users, codeOk \in BOOLEAN :
           LET run == MfaVerifyHandler(TRUE, [ok |-> TRUE, purpose |-> "mfa_login",
                                              userId |-> u], codeOk, {})
               types == [k \in 1..Len(Appended(run)) |-> Appended(run)[k].eventType]
           IN  types = IF codeOk THEN <<"MFA_SUCCESS">> ELSE <<"MFA_FAILURE">>

-----------------------------------------------------------------------------
(* Pagination of the audit-log listing *)

\* the words sent as page and as limit: absent, numbers, zero, a negative
\* number, a number beyond the cap, and a word that is no number
PageWords == {NULL, "1", "2", "3", "500", "-1", "0", "abc"}

\* C16: the administrator's listing without filters, for every page and limit
\* word and every order the database may pick, answers 200 with a limit in
\* 1..200 (50 when the word is absent or no number), a page of at least 1,
\* total the number of rows, totalPages the least number of pages of that
\* limit that hold them, and the rows of that page: never more than limit,
\* and none when the page lies beyond totalPages.
C16_Pagination ==
    \A page \in PageWords, limit \in PageWords :
        \A order \in GetAuditLogsOrders([NoQuery EXCEPT !.page = page,
                                                        !.limit = limit]) :
            LET run == GetAuditLogsHandler("adm",
                           [NoQuery EXCEPT !.page = page, !.limit = limit],
                           order, {})
                d == run.res.data[1]
            IN  /\ run.res.status = 200
                /\ d.limit \in 1..200
                /\ limit \in {NULL, "abc"} => d.limit = 50
                /\ d.page >= 1
                /\ page \in {"1", "2", "3", "500"} => d.page = ParseInt(page)
                /\ d.total = Len(auditLogs)
                /\ d.totalPages * d.limit >= d.total
                /\ (d.totalPages - 1) * d.limit < d.total
                /\ Len(d.rows) <= d.limit
                /\ d.page > d.totalPages => d.rows = <<>>
                /\ d.page <= d.totalPages =>
                       Len(d.rows) = Min(d.limit, d.total - (d.page - 1) * d.limit)

\* the administrator has asked for page 3 with limit 500 of a table that
\* holds rows: the answer is a success with limit 200, one page, and no row
C16_Witness ==
    /\ req.op = "GET /audit-logs" /\ req.arg = "3"
    /\ res.status = 200
    /\ Len(auditLogs) > 0
    /\ res.data[1].limit = 200
    /\ res.data[1].total = Len(auditLogs)
    /\ res.data[1].totalPages = 1
    /\ res.data[1].page = 3
    /\ res.data[1].rows = <<>>

-----------------------------------------------------------------------------
(* The export against the listing *)

\* the ids of the rows the listing returns for q on page p, under an order
ListingPage(q, order, p) ==
    LET rows == GetAuditLogsHandler("adm", [q EXCEPT !.page = ToString(p)],
                                    order, {}).res.data[1].rows
    IN  [k \in 1..Len(rows) |-> rows[k].id]

RECURSIVE ListingPages(_, _, _, _)
\* the ids of the rows the listing returns for q on the pages p..last
ListingPages(q, order, p, last) ==
    IF p > last THEN <<>>
    ELSE ListingPage(q, order, p) \o ListingPages(q, order, p + 1, last)

\* the file made of the rows with these ids
ExportOf(ids) ==
    Join(<<ExportHeader>> \o
         [k \in 1..Len(ids) |-> ExportLine(auditLogs[ids[k]], alerts)], "\n")

\* C17: for every query (filters on eventType, one or a list, userId, q,
\* ipAddress, from, to, severity), the export succeeds exactly when the listing
\* does, the database has the same orders to pick from for both, and under
\* each of them the file holds the rows of all the pages of the listing, in
\* the order of the listing, cut at 10,000.
C17_ExportMatchesListing ==
    \A q \in WideQueries :
        LET first == GetAuditLogsHandler("adm", [q EXCEPT !.page = "1"],
                                         <<>>, {}).res
        IN  /\ \A order \in ExportCsvOrders(q) :
                   ExportCsvHandler("adm", q, order, {}).res.status = first.status
            /\ first.status = 200 =>
                   /\ ExportCsvOrders(q) = GetAuditLogsOrders(q)
                   /\ \A order \in GetAuditLogsOrders(q) :
                          ExportCsvHandler("adm", q, order, {}).res.data
                              = ExportOf(SkipTake(
                                    ListingPages(q, order, 1,
                                        CeilDiv(Len(order), LimitNum(q.limit))),
                                    0, ExportCap))

-----------------------------------------------------------------------------
(* CSV escaping *)

\* a CSV reader. A position of a text is inside double quotes when an odd
\* number of double quotes precedes it
InQuotes(text, i) ==
    Cardinality({j \in 1..(i - 1) : text[j] = Quote}) % 2 = 1

\* the pieces of text[lo..hi] between the separators that are outside quotes,
\* as pairs of bounds
Split(text, lo, hi, sep) ==
    LET b == SortAsc({i \in lo..hi : text[i] = sep /\ ~InQuotes(text, i)})
    IN  [k \in 1..(Len(b) + 1) |->
            [lo |-> IF k = 1 THEN lo ELSE b[k - 1] + 1,
             hi |-> IF k = Len(b) + 1 THEN hi ELSE b[k] - 1]]

RECURSIVE ReadField(_, _)
\* the value of a field: the quotes that open and close are dropped, two
\* double quotes inside quotes stand for one
ReadField(text, quoted) ==
    IF text = <<>> THEN <<>>
    ELSE IF Head(text) # Quote THEN <<Head(text)>> \o ReadField(Tail(text), quoted)
    ELSE IF quoted /\ Len(text) >= 2 /\ text[2] = Quote
    THEN <<Quote>> \o ReadField(Tail(Tail(text)), TRUE)
    ELSE ReadField(Tail(text), ~quoted)

\* the fields of the record text[lo..hi]
ParseRecord(text, lo, hi) ==
    LET f == Split(text, lo, hi, ",")
    IN  [k \in 1..Len(f) |-> ReadField(SubSeq(text, f[k].lo, f[k].hi), FALSE)]

\* the records of a file, each the sequence of its fields
ParseCsv(text) ==
    LET r == Split(text, 1, Len(text), "\n")
    IN  [k \in 1..Len(r) |-> ParseRecord(text, r[k].lo, r[k].hi)]

\* C18: csvEscape answers the empty text for null and undefined, and for any
\* other value its text between double quotes, which a CSV reader reads back
\* as one field holding the original text whatever quotes, commas and
\* newlines it holds; and every record a CSV reader finds in an exported file
\* under the header holds the cells of a stored row, each as one field.
C18_CsvEscape ==
    /\ call.fn = "csvEscape" =>
           IF call.arg = NoText THEN call.ret = <<>>
           ELSE /\ Len(call.ret) >= 2
                /\ Head(call.ret) = Quote
                /\ call.ret[Len(call.ret)] = Quote
                /\ Len(call.ret) = 2 + Len(call.arg)
                       + Cardinality({i \in 1..Len(call.arg) : call.arg[i] = Quote})
                /\ ParseCsv(call.ret) = <<<<call.arg>>>>
    /\ (res.op = "GET /audit-logs/export.csv" /\ res.status = 200) =>
           \A k \in 2..Len(ParseCsv(res.data)) :
               \E i \in 1..Len(auditLogs) :
                   ParseCsv(res.data)[k] = ExportCells(auditLogs[i], alerts)

\* csvEscape has been called on a text of a quote, a comma and a newline,
\* after an export of a table with rows
C18_Witness ==
    /\ call.fn = "csvEscape"
    /\ call.arg = <<Quote, ",", "\n">>
    /\ call.ret = <<Quote, Quote, Quote, ",", "\n", Quote>>
    /\ res.op = "GET /audit-logs/export.csv" /\ res.status = 200
    /\ Len(auditLogs) = 2
    /\ Len(ParseCsv(res.data)) = 3

-----------------------------------------------------------------------------
(* The severity badge *)

\* the ranking of the severities
SeverityOrder == [LOW |-> 1, MEDIUM |-> 2, HIGH |-> 3]

\* C19: pickHighestSeverity answers null for no alerts, and for a list of
\* alerts a severity of one of them that none of them outranks under
\* HIGH > MEDIUM > LOW, the same for every order of the list; severityRank
\* ranks it 3, 2 or 1 accordingly.
C19_HighestSeverity ==
    call.fn = "pickHighestSeverity" =>
        IF call.arg = <<>> THEN call.ret = <<NULL>>
        ELSE /\ \E i \in 1..Len(call.arg) : call.arg[i].severity = call.ret[1]
             /\ \A i \in 1..Len(call.arg) :
                    SeverityOrder[call.arg[i].severity] <= SeverityOrder[call.ret[1]]
             /\ \A p \in Perms(1..Len(call.arg)) :
                    pickHighestSeverity([k \in 1..Len(p) |-> call.arg[p[k]]])
                        = call.ret[1]
             /\ severityRank(call.ret[1]) = SeverityOrder[call.ret[1]]

\* the badge of alerts of severities LOW, HIGH, MEDIUM has been computed: HIGH
C19_Witness ==
    /\ call.fn = "pickHighestSeverity"
    /\ call.arg = <<[severity |-> "LOW"], [severity |-> "HIGH"],
                    [severity |-> "MEDIUM"]>>
    /\ call.ret = <<"HIGH">>

-----------------------------------------------------------------------------
(* Failed logins over time *)

\* the LOGIN_FAILURE rows written at or after an instant
FailuresFrom(t) ==
    {i \in 1..Len(auditLogs) :
        auditLogs[i].eventType = "LOGIN_FAILURE" /\ auditLogs[i].createdAt >= t}

\* C20: the administrator's summary, for the window 24h (the default) and
\* for 7d, lists buckets of an hour, respectively of a day, in strictly
\* ascending order of their start, none of them empty, that hold between them
\* exactly the LOGIN_FAILURE rows written in the trailing 24 hours,
\* respectively 7 days, each in the bucket of the hour or day that holds it.
C20_FailedLoginsOverTime ==
    \A window \in {"", "24h", "7d"} :
        LET days == IF window = "7d" THEN 7 ELSE 1
            unit == IF window = "7d" THEN 24 * 3600 * 1000 ELSE 3600 * 1000
            since == now - days * 24 * 3600 * 1000
        IN  \A ipOrder \in OrderByCountDesc(IpCounts(auditLogs, since)),
               typeOrder \in OrderByCountDesc(TypeCounts(auditLogs, since)) :
                LET run == SummaryHandler("adm", window, ipOrder, typeOrder, {})
                    b == run.res.data[1].failedLoginsOverTime
                IN  /\ run.res.status = 200
                    /\ \A k \in 1..Len(b) :
                           /\ b[k].t % unit = 0
                           /\ b[k].c >= 1
                           /\ b[k].c = Cardinality({i \in FailuresFrom(since) :
                                         /\ auditLogs[i].createdAt >= b[k].t
                                         /\ auditLogs[i].createdAt < b[k].t + unit})
                    /\ \A k \in 1..(Len(b) - 1) : b[k].t < b[k + 1].t
                    /\ \A i \in FailuresFrom(since) :
                           \E k \in 1..Len(b) :
                               /\ auditLogs[i].createdAt >= b[k].t
                               /\ auditLogs[i].createdAt < b[k].t + unit

\* the administrator has asked for the 24h summary of a table with failed
\* logins 26, 20 and 5 hours ago: the answer has the buckets of 20 and of 5
\* hours ago, one failure each
C20_Witness ==
    /\ req.op = "GET /audit-logs/summary" /\ req.arg = "24h"
    /\ res.status = 200
    /\ {auditLogs[i].createdAt : i \in FailuresFrom(0)}
           = {now - 26 * HourMs, now - 20 * HourMs, now - 5 * HourMs}
    /\ res.data[1].failedLoginsOverTime
           = <<[t |-> now - 20 * HourMs, c |-> 1], [t |-> now - 5 * HourMs, c |-> 1]>>

-----------------------------------------------------------------------------
(* Filters of the alert listing *)

\* query words outside the enumerations, in either case
BadWords == {"DONE", "done", "CRITICAL", "FOO"}

\* the queries that carry one word outside its enumeration
BadAlertQueries ==
    {[status |-> w, severity |-> NULL, type |-> NULL] : w \in BadWords}
    \cup {[status |-> NULL, severity |-> w, type |-> NULL] : w \in BadWords}
    \cup {[status |-> "open", severity |-> NULL, type |-> w] : w \in BadWords}

\* an answer 200 with an empty list, given without a storage call
EmptyList(run) ==
    /\ run.res.status = 200
    /\ run.res.data = <<>>
    /\ run.calls = {}
    /\ run.console = {}

\* C21: GET /alerts by the administrator with a status, severity or type
\* outside its enumeration is answered 200 with an empty list and without a
\* storage call, by the handler of either copy of the route.
C21_InvalidFilterEmptyList ==
    \A q \in BadAlertQueries :
        /\ EmptyList(GetAlertsHandler("adm", q, <<>>, {}))
        /\ EmptyList(BackendGetAlertsHandler("adm", q, <<>>, {}))

-----------------------------------------------------------------------------
(* The count of the brute-force rule *)

\* the LOGIN_FAILURE rows of the trailing ten minutes that match an account
\* (when known) and an address
InWindow(logs, userId, ip, t) ==
    Cardinality({i \in 1..Len(logs) :
                    /\ logs[i].eventType = "LOGIN_FAILURE"
                    /\ logs[i].createdAt >= t - TenMinutesMs
                    /\ (userId # NULL => logs[i].userId = userId)
                    /\ logs[i].ipAddress = ip})

\* the failed logins of the model: the account they name, or none
FailedLogins ==
    {[email |-> "u1", userId |-> "u1", ip |-> "ip1"],
     [email |-> "u1", userId |-> "u1", ip |-> "ip2"],
     [email |-> "nobody", userId |-> NULL, ip |-> "ip1"]}

-----------------------------------------------------------------------------
(* The ten-minute window *)

\* the failed logins of u1 from ip1 that are at most ms milliseconds old
NoOlderThan(ms) ==
    Cardinality({i \in 1..Len(auditLogs) :
                    Watched(auditLogs[i]) /\ now - auditLogs[i].createdAt <= ms})

\* C23: a failed login of u1 from ip1 counts its own row and the earlier
\* failures that are at most 600,000 ms old, a row of exactly that age
\* included and a row a second older not; it raises an alert exactly when
\* these are at least 5, so that four earlier failures of which one is older
\* than ten minutes raise none.
C23_WindowBoundary ==
    LET run == LoginHandler("u1", TRUE, FALSE, "ip1", {})
    IN  /\ run.failureCount = NoOlderThan(600000) + 1
        /\ Len(run.alerts) = Len(alerts) + (IF NoOlderThan(600000) >= 4 THEN 1 ELSE 0)
        /\ (Len(auditLogs) = 4 /\ NoOlderThan(600000) < 4) => run.alerts = alerts

\* the fifth failed login of u1 from ip1 has been answered: of the four
\* before it one was 10 minutes 1 second old, one exactly 10 minutes and one
\* 9 minutes 59 seconds, and no alert was raised
C23_Witness ==
    /\ req.op = "POST /login" /\ res.status = 401
    /\ dbCalls = {"user.findUnique", "auditLog.create", "auditLog.count"}
    /\ Len(auditLogs) = 5
    /\ auditLogs[5].createdAt = now
    /\ auditLogs[1].createdAt = now - 601000
    /\ \E i \in 2..4 : auditLogs[i].createdAt = now - 600000
    /\ \E i \in 2..4 : auditLogs[i].createdAt = now - 599000
    /\ alerts = <<>>

-----------------------------------------------------------------------------
(* The scope of the count *)

\* the stored LOGIN_FAILURE rows of the trailing ten minutes
RecentFailures ==
    {i \in 1..Len(auditLogs) :
        /\ auditLogs[i].eventType = "LOGIN_FAILURE"
        /\ auditLogs[i].createdAt >= now - 600000}

\* C24: a failed login counts, beside its own row, the recent failures of the
\* same account from the same address when both are known, those from the
\* same address (of any account or of none) when the account is unknown, and
\* those of the same account (from any address) when the address is unknown;
\* an alert is raised exactly when that count reaches 5.
C24_CountScope ==
    \A in \in ScopeLogins :
        LET run == LoginHandler(in.email, TRUE, FALSE, in.ip, {})
            scope == IF in.userId # NULL /\ in.ip # NULL
                     THEN {i \in RecentFailures :
                              /\ auditLogs[i].userId = in.userId
                              /\ auditLogs[i].ipAddress = in.ip}
                     ELSE IF in.ip # NULL
                     THEN {i \in RecentFailures : auditLogs[i].ipAddress = in.ip}
                     ELSE {i \in RecentFailures : auditLogs[i].userId = in.userId}
        IN  /\ run.failureCount = Cardinality(scope) + 1
            /\ Len(run.alerts) = Len(alerts) + (IF Cardinality(scope) >= 4 THEN 1 ELSE 0)

\* u1 has failed a login from ip1 for the third time, as the fifth failure
\* of the table, which also holds one of u1 from ip2 and one of u2 from ip1:
\* no alert was raised
C24_Witness ==
    /\ req.op = "POST /login" /\ req.caller = "u1" /\ req.arg = "ip1"
    /\ res.status = 401
    /\ Len(auditLogs) = 5
    /\ Cardinality({i \in 1..5 : Watched(auditLogs[i])}) = 3
    /\ \E i \in 1..4 : auditLogs[i].userId = "u1" /\ auditLogs[i].ipAddress = "ip2"
    /\ \E i \in 1..4 : auditLogs[i].userId = "u2" /\ auditLogs[i].ipAddress = "ip1"
    /\ alerts = <<>>

-----------------------------------------------------------------------------
(* No deduplication *)

\* C25: after n failed logins of u1 from ip1 in a row, all within ten minutes
\* and with every write served, the store holds n - 4 alerts when n >= 5 and
\* none before: the k-th is a BRUTE_FORCE alert of u1 that reports k + 4
\* failures.
C25_AlertPerFailure ==
    /\ Len(alerts) = (IF Len(auditLogs) >= 5 THEN Len(auditLogs) - 4 ELSE 0)
    /\ \A k \in 1..Len(alerts) :
           /\ alerts[k].type = "BRUTE_FORCE"
           /\ alerts[k].userId = "u1"
           /\ alerts[k].description.count = k + 4

\* the sixth failed login in a row has been answered and the store holds two
\* alerts, the second one reporting 6 failures
C25_Witness ==
    /\ req.op = "POST /login" /\ res.status = 401
    /\ Len(auditLogs) = 6
    /\ Len(alerts) = 2
    /\ alerts[1].description.count = 5
    /\ alerts[2].description.count = 6
    /\ alerts[1].status = "OPEN"

-----------------------------------------------------------------------------
(* Concurrent failed logins *)

\* the LOGIN_FAILURE rows of u1 from ip1 that are at most ten minutes old
RaceFailures ==
    {i \in 1..Len(auditLogs) : BruteForceWhere(auditLogs[i], "u1", "ip1", now)}

\* C26: a count sees every row in the store, the rows of requests that have
\* not counted yet included, and a request that counted 5 or more writes its
\* alert whatever alerts the table already holds: when two requests have
\* both written and neither has counted, with 5 failures in the window, each
\* of them counts 5 and each of them writes an alert.
C26_BothCountFive ==
    /\ \A r \in Slots :
           inflight[r].pc = "count" =>
               LET slot == CountFailures(inflight[r], FALSE)
               IN  /\ slot.failureCount = Cardinality(RaceFailures)
                   /\ Cardinality(RaceFailures) >= 5 => slot.pc = "alert"
    /\ \A r \in Slots :
           inflight[r].pc = "alert" =>
               LET d == BruteForceRule(inflight[r].failureCount, alerts, "ip1",
                                       "u1", NoId, now, {})
               IN  /\ inflight[r].failureCount >= 5
                   /\ Len(d.alerts) = Len(alerts) + 1
                   /\ d.alerts[Len(d.alerts)].type = "BRUTE_FORCE"
                   /\ d.alerts[Len(d.alerts)].description.count
                          = inflight[r].failureCount

\* three earlier failures, two concurrent requests, both answered: 5 failures
\* in the window and two BRUTE_FORCE alerts, each reporting 5
C26_Witness ==
    /\ \A r \in Slots : inflight[r].pc = "done"
    /\ Len(auditLogs) = 5
    /\ Cardinality(RaceFailures) = 5
    /\ Len(alerts) = 2
    /\ \A k \in 1..2 :
           /\ alerts[k].type = "BRUTE_FORCE"
           /\ alerts[k].description.count = 5
    /\ req.op = "POST /login" /\ res.status = 401

\* no request is in progress
Quiescent == \A r \in Slots : inflight[r].pc \in {"idle", "done"}

-----------------------------------------------------------------------------
(* The result of the detection rules *)

\* C28: runLoginDetectionRules returns alertCreated = true exactly when the
\* call stored a BRUTE_FORCE alert: a failed login of u1 from ip1, whatever
\* the count query and the alert write do, reports alertCreated iff the alerts
\* table gained a row, and a successful login reports false.
C28_AlertCreatedIffStored ==
    /\ \A faults \in SUBSET {"auditLog.count", "alert.create"} :
           LET run == LoginHandler("u1", TRUE, FALSE, "ip1", faults)
           IN  run.alertCreated <=>
                   /\ Len(run.alerts) = Len(alerts) + 1
                   /\ run.alerts[Len(run.alerts)].type = "BRUTE_FORCE"
    /\ LET run == LoginHandler("u1", TRUE, TRUE, "ip1", {})
       IN  ~run.alertCreated /\ run.alerts = alerts

-----------------------------------------------------------------------------
(* The token of the MFA step, and the enrolment of the second factor *)

\* the token /login signs for the MFA step of an account
MfaLoginToken(u) == [ok |-> TRUE, purpose |-> "mfa_login", userId |-> u]

\* a bearer token was refused: 401 or 403, and the users table is as it was
Refused(run) ==
    /\ run.res.status \in {401, 403}
    /\ run.users = users

\* C29: the mfa_login token presented as a bearer token is refused by GET /me,
\* by POST /oauth/link and by POST /oauth/unlink.
C29_MfaTokenRefused ==
    \A u \in {"u1", "u2"} :
        /\ Refused(GetMeHandler(MfaLoginToken(u)))
        /\ Refused(OauthLinkHandler(MfaLoginToken(u), "google", "g1", {}))
        /\ Refused(OauthUnlinkHandler(MfaLoginToken(u), "google", {}))

\* the request of the step is op by account u
Requested(op, u) == req'.op = op /\ req'.caller = u

\* C30: in every step, an account whose MFA is enabled after the step has a
\* secret, the one it had before the step, and either MFA was enabled before
\* or the step is a /mfa/confirm of the account with a valid code; a
\* /mfa/setup of an account with MFA enabled leaves its secret as it was; a
\* /mfa/disable that succeeds leaves mfaEnabled false and mfaSecret null.
C30_EnabledSecretConfirmed ==
    [][\A u \in {"u1", "u2"} :
          /\ users'[u].mfaEnabled =>
                 /\ users'[u].mfaSecret # NULL
                 /\ users'[u].mfaSecret = users[u].mfaSecret
                 /\ \/ users[u].mfaEnabled
                    \/ /\ Requested("POST /mfa/confirm", u)
                       /\ req'.arg = "code accepted"
                       /\ res'.status = 200
          /\ (Requested("POST /mfa/setup", u) /\ users[u].mfaEnabled) =>
                 users'[u].mfaSecret = users[u].mfaSecret
          /\ (Requested("POST /mfa/disable", u) /\ res'.status = 200) =>
                 /\ ~users'[u].mfaEnabled
                 /\ users'[u].mfaSecret = NULL]_vars

====
